---- MODULE Spec2Model ----
(***************************************************************************)
(* Model of score-implementation-avassa: the `generate` command            *)
(* (internal/command/generate.go), the workload conversion                 *)
(* (internal/convert/convert.go) and the project state it works on.        *)
(*                                                                         *)
(* Strings are sequences of one-character strings, so that byte-wise       *)
(* ordering (slices.Sort, sort.Strings) and the character-level functions  *)
(* (TrimSpace, sanitizeName) are computed rather than assumed.             *)
(* A Go map is a TLA+ function; a nil pointer / unset flag is Unset.       *)
(***************************************************************************)
EXTENDS Integers, Sequences, FiniteSets, TLC

VARIABLES
    stateDir,    \* TRUE once .score-implementation-avassa/ exists
    persisted,   \* the State stored in state.yaml
    outFile,     \* content of the -o target path: NoFile or a sequence of documents
    stdout,      \* what the last invocation wrote to cmd.OutOrStdout()
    lastErr,     \* error returned by the last invocation, or NoErr
    lastArgs,    \* the score files the last invocation was given
    lastOverride, \* whether the last invocation was given an override flag
    lastImage,   \* the --image flag of the last invocation
    runs,        \* number of generate invocations so far
    given,       \* the argument of a function studied on its own, or [of |-> "nothing"]
    result       \* what the function returned for it, or NoOutput

vars == <<stateDir, persisted, outFile, stdout, lastErr, lastArgs, lastOverride, lastImage, runs, given, result>>

\* Longest list of score files passed to one generate invocation.
MaxArgs == 2

\* Number of generate invocations in one behaviour.
MaxRuns == 2

\* Longest list of score files passed to an invocation that is not the first.
MaxLaterArgs == 1

Unset == "<unset>"
NoFile == [exists |-> FALSE, docs |-> <<>>]
NoErr == [kind |-> "ok", names |-> "nothing", subject |-> <<>>]
NoOutput == [of |-> "nothing"]

----------------------------------------------------------------------------
(* Strings                                                                 *)

\* Byte values of the characters that occur in the model.
Code ==
    (" " :> 32) @@ ("!" :> 33) @@ ("-" :> 45) @@ ("." :> 46) @@
    ("+" :> 43) @@ ("0" :> 48) @@ ("1" :> 49) @@ ("2" :> 50) @@ ("3" :> 51) @@
    ("4" :> 52) @@ ("5" :> 53) @@ ("6" :> 54) @@ ("7" :> 55) @@ ("8" :> 56) @@ ("9" :> 57) @@
    ("A" :> 65) @@ ("W" :> 87) @@
    ("a" :> 97) @@ ("b" :> 98) @@ ("c" :> 99) @@ ("d" :> 100) @@
    ("e" :> 101) @@ ("g" :> 103) @@ ("h" :> 104) @@ ("i" :> 105) @@
    ("j" :> 106) @@ ("l" :> 108) @@ ("m" :> 109) @@ ("n" :> 110) @@
    ("o" :> 111) @@ ("p" :> 112) @@ ("q" :> 113) @@ ("r" :> 114) @@
    ("s" :> 115) @@ ("t" :> 116) @@ ("v" :> 118) @@ ("w" :> 119) @@
    ("x" :> 120) @@ ("z" :> 122)

\* Go's string comparison s < t: lexicographic on bytes.
RECURSIVE StrLess(_, _)
StrLess(s, t) ==
    IF t = <<>> THEN FALSE
    ELSE IF s = <<>> THEN TRUE
    ELSE IF Code[Head(s)] # Code[Head(t)] THEN Code[Head(s)] < Code[Head(t)]
    ELSE StrLess(Tail(s), Tail(t))

\* Insert x into the ascending sequence q, after the elements equal to it.
RECURSIVE InsertSorted(_, _)
InsertSorted(x, q) ==
    IF q = <<>> THEN <<x>>
    ELSE IF StrLess(x, Head(q)) THEN <<x>> \o q
    ELSE <<Head(q)>> \o InsertSorted(x, Tail(q))

\* A sort that leaves the list as given.
SortStringsKeepsOrder(q) == q

\* slices.Sort(args) / sort.Strings(names): ascending order, duplicates kept.
RECURSIVE SortStrings(_)
SortStrings(q) ==
    IF q = <<>> THEN <<>>
    ELSE InsertSorted(Head(q), SortStrings(Tail(q)))

\* strings.TrimSpace
RECURSIVE TrimLeftSpace(_)
TrimLeftSpace(s) ==
    IF s # <<>> /\ Head(s) = " " THEN TrimLeftSpace(Tail(s)) ELSE s

RECURSIVE TrimRightSpace(_)
TrimRightSpace(s) ==
    IF s # <<>> /\ s[Len(s)] = " "
    THEN TrimRightSpace(SubSeq(s, 1, Len(s) - 1))
    ELSE s

TrimSpace(s) == TrimRightSpace(TrimLeftSpace(s))

\* The value of a string of digits; ok is false if another character occurs.
RECURSIVE ParseUint(_)
ParseUint(s) ==
    IF s = <<>> THEN [ok |-> TRUE, n |-> 0]
    ELSE [ok |-> ParseUint(SubSeq(s, 1, Len(s) - 1)).ok
                 /\ Code[s[Len(s)]] >= 48 /\ Code[s[Len(s)]] <= 57,
          n |-> 10 * ParseUint(SubSeq(s, 1, Len(s) - 1)).n + (Code[s[Len(s)]] - 48)]

\* strconv.Atoi: an optional sign and digits.
Atoi(s) ==
    CASE s = <<>> -> [ok |-> FALSE, n |-> 0]
      [] Head(s) \in {"-", "+"} ->
            [ok |-> Len(s) > 1 /\ ParseUint(Tail(s)).ok,
             n |-> IF Head(s) = "-" THEN 0 - ParseUint(Tail(s)).n ELSE ParseUint(Tail(s)).n]
      [] OTHER -> ParseUint(s)

----------------------------------------------------------------------------
(* Score documents.  A value that may hold ${...} placeholders is a        *)
(* sequence of parts: literal text, or a reference with its dot path.      *)

Lit(s) == [kind |-> "lit", text |-> s, path |-> <<>>]
Ref(p) == [kind |-> "ref", text |-> <<>>, path |-> p]

EmptyMap == [k \in {} |-> Unset]

W1 == <<"w", "1">>
W2 == <<"w", "2">>
Main == <<"m">>

\* A value of a raw document, the map[string]interface{} of yaml.Unmarshal: a
\* mapping, a list or a scalar.
Mapping(fields) == [kind |-> "map", of |-> fields]
List(items) == [kind |-> "list", of |-> items]
Scalar(v) == [kind |-> "scalar", of |-> v]

\* a: workload w1, one resource of type T without class or id.
DocA ==
    Mapping(
      ("apiVersion" :> Scalar("score.dev/v1b1")) @@
      ("metadata" :> Mapping("name" :> Scalar(W1))) @@
      ("containers" :>
          Mapping(Main :> Mapping([image |-> Scalar(<<"i">>),
                                   variables |->
                                      Mapping("K" :> Scalar(<<Ref(<<"metadata", "name">>)>>))]))) @@
      ("resources" :>
          Mapping("db" :> Mapping([type |-> Scalar("T"),
                                   params |-> Mapping("size" :> Scalar("1"))]))))

\* b: workload w2, the same resource as a (under the same local name) and a
\* second reference of the same type with an id.
DocB ==
    Mapping(
      ("apiVersion" :> Scalar("score.dev/v1b1")) @@
      ("metadata" :> Mapping("name" :> Scalar(W2))) @@
      ("containers" :>
          Mapping(Main :> Mapping([image |-> Scalar(<<"i">>),
                                   variables |->
                                      Mapping("H" :> Scalar(<<Ref(<<"resources", "db", "host">>)>>))]))) @@
      ("resources" :>
          Mapping(("db" :> Mapping([type |-> Scalar("T"),
                                    params |-> Mapping("size" :> Scalar("1"))])) @@
                  ("cache" :> Mapping([type |-> Scalar("T"), id |-> Scalar("x"),
                                       params |-> Mapping("size" :> Scalar("1"))])))))

\* c: workload w2 again, the resource of a under another local name and with
\* other params.
DocC ==
    Mapping(
      ("apiVersion" :> Scalar("score.dev/v1b1")) @@
      ("metadata" :> Mapping("name" :> Scalar(W2))) @@
      ("containers" :>
          Mapping(Main :> Mapping([image |-> Scalar(<<"j">>),
                                   variables |->
                                      Mapping("H" :> Scalar(<<Ref(<<"resources", "q", "host">>)>>))]))) @@
      ("resources" :>
          Mapping("q" :> Mapping([type |-> Scalar("T"),
                                  params |-> Mapping("size" :> Scalar("2"))]))))

\* d: workload w1 again, no resources section, no variables; container m
\* has image ".", container n has an image of its own.
DocD ==
    Mapping(
      ("apiVersion" :> Scalar("score.dev/v1b1")) @@
      ("metadata" :> Mapping("name" :> Scalar(W1))) @@
      ("containers" :>
          Mapping((Main :> Mapping([image |-> Scalar(<<".">>)])) @@
                  (<<"n">> :> Mapping([image |-> Scalar(<<"j">>)])))))

\* The documents the environment may put at path x.  "unresolved" validates
\* but does not convert: workload w1 with a variable that refers to a
\* resource the workload does not declare.  "files" gives the files of the
\* container as a list, the older form of the schema; in "no-target" an
\* entry of that list has no target; in "dots" the containers m and n both
\* have image ".".
DocX(xContent) ==
    Mapping(
      ("apiVersion" :> Scalar("score.dev/v1b1")) @@
      ("metadata" :> Mapping("name" :> Scalar(W1))) @@
      ("containers" :>
          Mapping((IF xContent = "dots"
                   THEN <<"n">> :> Mapping([image |-> Scalar(<<".">>)])
                   ELSE EmptyMap) @@
                  (Main :>
            Mapping(
              CASE xContent = "unresolved" ->
                     [image |-> Scalar(<<"i">>),
                      variables |->
                         Mapping("H" :> Scalar(<<Ref(<<"resources", "cache", "host">>)>>))]
                [] xContent = "files" ->
                     [image |-> Scalar(<<"i">>),
                      files |-> List(<<Mapping([target |-> Scalar(<<"f">>),
                                                content |-> Scalar(<<Lit(<<"v">>)>>)])>>)]
                [] xContent = "dots" -> [image |-> Scalar(<<".">>)]
                [] OTHER ->
                     [image |-> Scalar(<<"i">>),
                      files |-> List(<<Mapping([content |-> Scalar(<<Lit(<<"v">>)>>)])>>)])))))

FileA == <<"a">>
FileB == <<"b">>
FileC == <<"c">>
FileD == <<"d">>
FileX == <<"x">>

\* os.ReadFile + yaml.Unmarshal of a score file; x is the file the
\* environment varies.
ScoreFile(path, xContent) ==
    CASE path = FileA -> [kind |-> "doc", doc |-> DocA]
      [] path = FileB -> [kind |-> "doc", doc |-> DocB]
      [] path = FileC -> [kind |-> "doc", doc |-> DocC]
      [] path = FileD -> [kind |-> "doc", doc |-> DocD]
      [] OTHER -> CASE xContent = "empty" -> [kind |-> "doc", doc |-> Mapping(EmptyMap)]
                    [] xContent \in {"unresolved", "files", "no-target", "dots"} ->
                          [kind |-> "doc", doc |-> DocX(xContent)]
                    [] OTHER -> [kind |-> xContent, doc |-> Mapping(EmptyMap)]

----------------------------------------------------------------------------
(* Flags of `generate` (generate.go, init()).  A string flag is the pair   *)
(* of pflag's Changed bit and its value; the default value is the empty    *)
(* string, except for --output.                                            *)

NotGiven == [changed |-> FALSE, v |-> <<>>]
Given(v) == [changed |-> TRUE, v |-> v]

\* --override-property entries.  strings.SplitN(entry, "=", 2) gives two
\* parts iff the entry holds a '='; the second part empty means removal;
\* path is framework.ParseDotPathParts of the first part, value what
\* yaml.Unmarshal gives for the second, and decodes is false when
\* yaml.Unmarshal rejects it.  A malformed entry, the removal of resources, a
\* new metadata name, a path into a scalar, the image of container m (a path
\* of three parts), a value that is no YAML, and the content of the file
\* "0" of container m, or of its first file where the files are a list.
OverrideProperties ==
    {[text |-> <<"p", "1">>, hasEq |-> FALSE, path |-> <<"resources">>, empty |-> TRUE,
      decodes |-> TRUE, value |-> Scalar(<<>>)],
     [text |-> <<"p", "2">>, hasEq |-> TRUE, path |-> <<"resources">>, empty |-> TRUE,
      decodes |-> TRUE, value |-> Scalar(<<>>)],
     [text |-> <<"p", "3">>, hasEq |-> TRUE, path |-> <<"metadata", "name">>, empty |-> FALSE,
      decodes |-> TRUE, value |-> Scalar(W2)],
     [text |-> <<"p", "4">>, hasEq |-> TRUE, path |-> <<"apiVersion", "x">>, empty |-> FALSE,
      decodes |-> TRUE, value |-> Scalar(W2)],
     [text |-> <<"p", "5">>, hasEq |-> TRUE, path |-> <<"containers", Main, "image">>,
      empty |-> FALSE, decodes |-> TRUE, value |-> Scalar(<<"j">>)],
     [text |-> <<"p", "6">>, hasEq |-> TRUE, path |-> <<"metadata", "name">>, empty |-> FALSE,
      decodes |-> FALSE, value |-> Scalar(<<>>)],
     [text |-> <<"p", "7">>, hasEq |-> TRUE,
      path |-> <<"containers", Main, "files", <<"0">>, "content">>, empty |-> FALSE,
      decodes |-> TRUE, value |-> Scalar(<<Lit(<<"w">>)>>)]}

DefaultFlags ==
    [output |-> "manifests.yaml", stdout |-> FALSE,
     overridesFile |-> NotGiven,
     overrideProperty |-> NotGiven,
     image |-> NotGiven]

FlagChoices ==
    { DefaultFlags,
      [DefaultFlags EXCEPT !.stdout = TRUE],
      [DefaultFlags EXCEPT !.output = "-"],
      [DefaultFlags EXCEPT !.output = ""],
      [DefaultFlags EXCEPT !.image = Given(<<"i">>)],
      [DefaultFlags EXCEPT !.image = Given(<<"i">>), !.stdout = TRUE],
      [DefaultFlags EXCEPT !.image = Given(<<".">>)],
      [DefaultFlags EXCEPT !.image = Given(<<>>)],
      [DefaultFlags EXCEPT !.overridesFile = Given(<<"o">>)] }
    \cup {[DefaultFlags EXCEPT !.overrideProperty = Given(<<p>>)] : p \in OverrideProperties}

\* An error: which return statement produced it, what its message names (the
\* score file, the override flag's entry, a container, a workload, nothing)
\* and the name it gives.
Err(kind, names, subject) == [kind |-> kind, names |-> names, subject |-> subject]

----------------------------------------------------------------------------
(* Overrides (generate.go parseAndApplyOverrideFile,                       *)
(* parseAndApplyOverrideProperty).                                         *)

\* mergo.Merge(&spec, out, mergo.WithOverride) on two mappings: a key of the
\* override whose value and the document's value are both mappings is merged
\* in turn, to any depth; any other value of the override (scalar, list,
\* mapping over something else) replaces the value of the document.
RECURSIVE MergoMerge(_, _)
MergoMerge(dst, src) ==
    Mapping([k \in DOMAIN dst.of \cup DOMAIN src.of |->
                IF k \notin DOMAIN src.of THEN dst.of[k]
                ELSE IF k \in DOMAIN dst.of /\ dst.of[k].kind = "map" /\ src.of[k].kind = "map"
                THEN MergoMerge(dst.of[k], src.of[k])
                ELSE src.of[k]])

\* parseAndApplyOverrideFile: the overrides file is the one the environment
\* varies here ("empty" is the document without keys); the overrides
\* document holds another image for container m and a variable more.
parseAndApplyOverrideFile(entry, ovContent, spec) ==
    CASE ovContent = "missing" ->
            [err |-> Err("override-file-read", "overrides-file", entry), doc |-> spec]
      [] ovContent = "garbage" ->
            [err |-> Err("override-file-decode", "overrides-file", entry), doc |-> spec]
      [] ovContent = "empty" -> [err |-> NoErr, doc |-> MergoMerge(spec, Mapping(EmptyMap))]
      [] OTHER ->
           [err |-> NoErr,
            doc |-> MergoMerge(spec,
                       Mapping("containers" :>
                          Mapping(Main :>
                             Mapping([image |-> Scalar(<<"j">>),
                                      variables |->
                                         Mapping("L" :> Scalar(<<Lit(<<"v">>)>>))]))))]

\* The result of a step of the path put under its key, or at its index.
OverriddenChild(input, key, sub) ==
    IF ~sub.ok THEN [ok |-> FALSE, doc |-> input]
    ELSE [ok |-> TRUE,
          doc |-> [kind |-> input.kind,
                   of |-> IF input.kind = "map" THEN (key :> sub.doc) @@ input.of
                          ELSE [input.of EXCEPT ![key] = sub.doc]]]

\* framework.OverridePathInMap on a mapping, and its counterpart for a list
\* (a part that is an index from 0, -1 to append).  The mapping or list on
\* the path is copied and changed; a mapping that is missing on the way is
\* created when a value is set and left missing when a key is removed; a path
\* that goes on through a scalar fails, as does an index outside the list.
RECURSIVE OverridePathInMap(_, _, _, _)
RECURSIVE overridePathInArray(_, _, _, _)
OverridePathInMap(input, path, isDelete, value) ==
    CASE path = <<>> -> [ok |-> FALSE, doc |-> input]
      [] Len(path) = 1 ->
            [ok |-> TRUE,
             doc |-> Mapping(IF isDelete
                             THEN [k \in DOMAIN input.of \ {path[1]} |-> input.of[k]]
                             ELSE (path[1] :> value) @@ input.of)]
      [] path[1] \notin DOMAIN input.of ->
            IF isDelete THEN [ok |-> TRUE, doc |-> input]
            ELSE OverriddenChild(input, path[1],
                    OverridePathInMap(Mapping(EmptyMap), Tail(path), isDelete, value))
      [] input.of[path[1]].kind = "map" ->
            OverriddenChild(input, path[1],
                    OverridePathInMap(input.of[path[1]], Tail(path), isDelete, value))
      [] input.of[path[1]].kind = "list" ->
            OverriddenChild(input, path[1],
                    overridePathInArray(input.of[path[1]], Tail(path), isDelete, value))
      [] OTHER -> [ok |-> FALSE, doc |-> input]

overridePathInArray(input, path, isDelete, value) ==
    CASE path = <<>> -> [ok |-> FALSE, doc |-> input]
      [] ~Atoi(path[1]).ok -> [ok |-> FALSE, doc |-> input]
      [] Len(path) = 1 /\ ~isDelete /\ Atoi(path[1]).n = -1 ->
            [ok |-> TRUE, doc |-> List(Append(input.of, value))]
      [] Atoi(path[1]).n < 0 \/ Atoi(path[1]).n >= Len(input.of) ->
            [ok |-> FALSE, doc |-> input]
      [] Len(path) = 1 ->
            [ok |-> TRUE,
             doc |-> List(IF isDelete
                          THEN SubSeq(input.of, 1, Atoi(path[1]).n)
                               \o SubSeq(input.of, Atoi(path[1]).n + 2, Len(input.of))
                          ELSE [input.of EXCEPT ![Atoi(path[1]).n + 1] = value])]
      [] input.of[Atoi(path[1]).n + 1].kind = "map" ->
            OverriddenChild(input, Atoi(path[1]).n + 1,
                    OverridePathInMap(input.of[Atoi(path[1]).n + 1], Tail(path),
                                      isDelete, value))
      [] input.of[Atoi(path[1]).n + 1].kind = "list" ->
            OverriddenChild(input, Atoi(path[1]).n + 1,
                    overridePathInArray(input.of[Atoi(path[1]).n + 1], Tail(path),
                                        isDelete, value))
      [] OTHER -> [ok |-> FALSE, doc |-> input]

OverrideApplied(entry, spec, after) ==
    IF after.ok THEN [err |-> NoErr, doc |-> after.doc]
    ELSE [err |-> Err("override-property-apply", "override-property", entry.text), doc |-> spec]

\* generate.go 207-228: an entry without '=' is malformed; an empty second
\* part removes the path; otherwise the second part has to be YAML and is
\* set at the path.
parseAndApplyOverrideProperty(entry, spec) ==
    IF ~entry.hasEq
    THEN [err |-> Err("override-property-invalid", "override-property", entry.text), doc |-> spec]
    ELSE IF ~entry.empty /\ ~entry.decodes
    THEN [err |-> Err("override-property-value", "override-property", entry.text), doc |-> spec]
    ELSE OverrideApplied(entry, spec,
                         OverridePathInMap(spec, entry.path, entry.empty, entry.value))

\* for _, overridePropertyEntry := range v: stops at the first error.
RECURSIVE ApplyOverrideProperties(_, _)
RECURSIVE ApplyNextOverrideProperties(_, _)
ApplyNextOverrideProperties(entries, r) ==
    IF r.err # NoErr THEN r ELSE ApplyOverrideProperties(entries, r.doc)

ApplyOverrideProperties(entries, spec) ==
    IF entries = <<>> THEN [err |-> NoErr, doc |-> spec]
    ELSE ApplyNextOverrideProperties(Tail(entries),
                                     parseAndApplyOverrideProperty(Head(entries), spec))

----------------------------------------------------------------------------
(* Project state (package internal/state): workloads by metadata name,     *)
(* resources by canonical ID.                                              *)

EmptyState == [workloads |-> EmptyMap, resources |-> EmptyMap]

\* Canonical ID of a resource reference: type, class, id, with the defaults
\* for an absent class or id.
CanonicalId(res) ==
    <<res.type,
      IF res.class = Unset THEN "default" ELSE res.class,
      IF res.id = Unset THEN "default" ELSE res.id>>

\* A merge that keeps only the workload it is given.
WithWorkloadAlone(st, workload, file) ==
    IF "name" \notin DOMAIN workload.metadata \/ workload.metadata["name"] = <<>>
    THEN [ok |-> FALSE, state |-> st]
    ELSE [ok |-> TRUE,
          state |-> [st EXCEPT !.workloads =
                        (workload.metadata["name"] :> [spec |-> workload, file |-> file])]]

\* WithWorkload: the record of the workload's metadata name is replaced as a
\* whole; a missing or empty name is an error.
WithWorkload(st, workload, file) ==
    IF "name" \notin DOMAIN workload.metadata \/ workload.metadata["name"] = <<>>
    THEN [ok |-> FALSE, state |-> st]
    ELSE [ok |-> TRUE,
          state |-> [st EXCEPT !.workloads =
                        (workload.metadata["name"] :> [spec |-> workload, file |-> file])
                        @@ st.workloads]]

\* The resource references of all workloads: <<workload name, local name>>.
References(st) ==
    UNION {{<<w, r>> : r \in DOMAIN st.workloads[w].spec.resources} :
             w \in DOMAIN st.workloads}

Reference(st, ref) == st.workloads[ref[1]].spec.resources[ref[2]]

ReferenceId(st, ref) == CanonicalId(st.workloads[ref[1]].spec.resources[ref[2]])

\* Differing params for one canonical ID: between two references, or
\* between a reference and the record stored for it.
PrimeConflict(st) ==
    \/ \E r1, r2 \in References(st) :
          /\ ReferenceId(st, r1) = ReferenceId(st, r2)
          /\ Reference(st, r1).params # Reference(st, r2).params
    \/ \E r \in References(st) :
          /\ ReferenceId(st, r) \in DOMAIN st.resources
          /\ st.resources[ReferenceId(st, r)].params # Reference(st, r).params

UsedBy(st, cid) == {r[1] : r \in {x \in References(st) : ReferenceId(st, x) = cid}}

NewResource(declared, users) ==
    [type |-> declared.type, class |-> declared.class, id |-> declared.id,
     params |-> declared.params, outputs |-> EmptyMap, usedBy |-> users]

PrimedResource(st, cid) ==
    IF cid \in DOMAIN st.resources
    THEN [st.resources[cid] EXCEPT !.usedBy = UsedBy(st, cid)]
    ELSE NewResource(Reference(st, CHOOSE r \in References(st) : ReferenceId(st, r) = cid),
                     UsedBy(st, cid))

\* WithPrimedResources: one record per canonical ID referenced by some
\* workload, usedBy the workloads that reference it; records already present
\* keep their outputs; records no workload references any more are dropped;
\* differing params for one canonical ID are a conflict.
WithPrimedResources(st) ==
    IF PrimeConflict(st) THEN [ok |-> FALSE, state |-> st]
    ELSE [ok |-> TRUE,
          state |-> [st EXCEPT !.resources =
                        [cid \in {ReferenceId(st, r) : r \in References(st)} |->
                            PrimedResource(st, cid)]]]

NeedsProvisioning(st) ==
    \E cid \in DOMAIN st.resources : DOMAIN st.resources[cid].outputs = {}

\* ProvisionResources: every record with empty outputs gets the outputs of
\* its provisioner, a host; if a provisioner fails the call fails as a whole.
ProvisionResources(st, provisionerFails) ==
    IF NeedsProvisioning(st) /\ provisionerFails THEN [ok |-> FALSE, state |-> st]
    ELSE [ok |-> TRUE,
          state |-> [st EXCEPT !.resources =
             [cid \in DOMAIN st.resources |->
                IF DOMAIN st.resources[cid].outputs = {}
                THEN [st.resources[cid] EXCEPT !.outputs = ("host" :> <<"h">>)]
                ELSE st.resources[cid]]]]

----------------------------------------------------------------------------
(* generate: reading and merging the score files (generate.go 71-138).     *)

\* A list of files or volumes as the mapping by target: each entry without
\* its target, under the target; ok is false when an entry is no mapping or
\* has no target.
RECURSIVE ByTarget(_)
ByTarget(items) ==
    IF items = <<>> THEN [ok |-> TRUE, of |-> EmptyMap]
    ELSE IF \/ Head(items).kind # "map"
            \/ "target" \notin DOMAIN Head(items).of
            \/ Head(items).of["target"].kind # "scalar"
    THEN [ok |-> FALSE, of |-> EmptyMap]
    ELSE [ok |-> ByTarget(Tail(items)).ok,
          of |-> ByTarget(Tail(items)).of @@
                 (Head(items).of["target"].of :>
                    Mapping([k \in DOMAIN Head(items).of \ {"target"} |-> Head(items).of[k]]))]

\* The lists a container may hold under files and volumes.
ListsOf(container) ==
    IF container.kind # "map" THEN {}
    ELSE {k \in DOMAIN container.of \cap {"files", "volumes"} : container.of[k].kind = "list"}

\* scoreschema.ApplyCommonUpgradeTransforms (generate.go 98): the files and
\* the volumes of a container given as a list become a mapping by target;
\* an entry without target fails the upgrade.
ApplyCommonUpgradeTransforms(raw) ==
    IF "containers" \notin DOMAIN raw.of \/ raw.of["containers"].kind # "map"
    THEN [ok |-> TRUE, doc |-> raw]
    ELSE [ok |-> \A c \in DOMAIN raw.of["containers"].of :
                    \A k \in ListsOf(raw.of["containers"].of[c]) :
                        ByTarget(raw.of["containers"].of[c].of[k].of).ok,
          doc |-> Mapping(
             ("containers" :>
                Mapping([c \in DOMAIN raw.of["containers"].of |->
                    IF ListsOf(raw.of["containers"].of[c]) = {}
                    THEN raw.of["containers"].of[c]
                    ELSE Mapping([k \in DOMAIN raw.of["containers"].of[c].of |->
                            IF k \in ListsOf(raw.of["containers"].of[c])
                            THEN Mapping(ByTarget(raw.of["containers"].of[c].of[k].of).of)
                            ELSE raw.of["containers"].of[c].of[k]])]))
             @@ raw.of)]

\* A field that, if present, has to be of a kind.
OptionalOfKind(m, key, kind) == key \in DOMAIN m.of => m.of[key].kind = kind

\* scoreschema.Validate: apiVersion, metadata and containers are required,
\* metadata is a mapping with a name, there is at least one container, each
\* a mapping with an image and, if any, mappings of variables and files;
\* resources, if any, are mappings with a type.
Validate(raw) ==
    /\ {"apiVersion", "metadata", "containers"} \subseteq DOMAIN raw.of
    /\ raw.of["metadata"].kind = "map"
    /\ "name" \in DOMAIN raw.of["metadata"].of
    /\ raw.of["metadata"].of["name"].kind = "scalar"
    /\ raw.of["metadata"].of["name"].of # <<>>
    /\ raw.of["containers"].kind = "map"
    /\ DOMAIN raw.of["containers"].of # {}
    /\ \A c \in DOMAIN raw.of["containers"].of :
          /\ raw.of["containers"].of[c].kind = "map"
          /\ "image" \in DOMAIN raw.of["containers"].of[c].of
          /\ raw.of["containers"].of[c].of["image"].kind = "scalar"
          /\ OptionalOfKind(raw.of["containers"].of[c], "variables", "map")
          /\ OptionalOfKind(raw.of["containers"].of[c], "files", "map")
          /\ "files" \in DOMAIN raw.of["containers"].of[c].of =>
                \A t \in DOMAIN raw.of["containers"].of[c].of["files"].of :
                    raw.of["containers"].of[c].of["files"].of[t].kind = "map"
    /\ OptionalOfKind(raw, "resources", "map")
    /\ "resources" \in DOMAIN raw.of =>
          \A r \in DOMAIN raw.of["resources"].of :
              /\ raw.of["resources"].of[r].kind = "map"
              /\ "type" \in DOMAIN raw.of["resources"].of[r].of
              /\ raw.of["resources"].of[r].of["type"].kind = "scalar"
              /\ OptionalOfKind(raw.of["resources"].of[r], "params", "map")

\* The Go value of a raw value: a map, a slice or the scalar.
RECURSIVE Untagged(_)
Untagged(v) ==
    IF v.kind = "scalar" THEN v.of ELSE [k \in DOMAIN v.of |-> Untagged(v.of[k])]

\* A field of a mapping as a Go value, or the zero value of its type.
Decoded(m, key, zero) == IF key \in DOMAIN m.of THEN Untagged(m.of[key]) ELSE zero

\* scoretypes.ContainerFile of a file of the document: it has content, or a
\* source, or neither; the paths of the model's documents name no file that
\* can be read.
TypedFile(f) ==
    [kind |-> CASE "content" \in DOMAIN f.of -> "content"
                [] "source" \in DOMAIN f.of -> "source"
                [] OTHER -> "none",
     content |-> Decoded(f, "content", <<>>),
     readable |-> "content" \in DOMAIN f.of,
     noExpand |-> Decoded(f, "noExpand", FALSE)]

\* scoretypes.Container of a container of the document.
TypedContainer(c) ==
    IF "files" \in DOMAIN c.of
    THEN [image |-> Untagged(c.of["image"]),
          variables |-> Decoded(c, "variables", EmptyMap),
          files |-> [t \in DOMAIN c.of["files"].of |-> TypedFile(c.of["files"].of[t])]]
    ELSE [image |-> Untagged(c.of["image"]),
          variables |-> Decoded(c, "variables", EmptyMap)]

\* scoreloader.MapSpec (generate.go 108): the typed workload of a document
\* that is valid; absent maps are empty, an absent class or id is nil.
MapSpec(raw) ==
    [metadata |-> Untagged(raw.of["metadata"]),
     containers |->
        [c \in DOMAIN raw.of["containers"].of |-> TypedContainer(raw.of["containers"].of[c])],
     resources |->
        IF "resources" \notin DOMAIN raw.of THEN EmptyMap
        ELSE [r \in DOMAIN raw.of["resources"].of |->
                [type |-> Untagged(raw.of["resources"].of[r].of["type"]),
                 class |-> Decoded(raw.of["resources"].of[r], "class", Unset),
                 id |-> Decoded(raw.of["resources"].of[r], "id", Unset),
                 params |-> Decoded(raw.of["resources"].of[r], "params", EmptyMap)]]]

DotContainers(workload) ==
    {c \in DOMAIN workload.containers : workload.containers[c].image = <<".">>}

\* The container the loop over the map of containers visits first among
\* those of a set, for an order of visiting; the order matters, and is
\* given, where the set has more than one container.
FirstVisited(set, visit) ==
    IF \E i \in DOMAIN visit : visit[i] \in set
    THEN visit[CHOOSE i \in DOMAIN visit :
                  visit[i] \in set /\ \A j \in 1..(i - 1) : visit[j] \notin set]
    ELSE CHOOSE c \in set : TRUE

\* An --image that goes to every container.
ApplyImageToAll(workload, image, visit) ==
    IF TrimSpace(image) = <<".">>
    THEN [err |-> Err("image-flag-invalid", "nothing", <<>>), workload |-> workload]
    ELSE IF DotContainers(workload) # {} /\ image = <<>>
    THEN [err |-> Err("image-needed", "container", FirstVisited(DotContainers(workload), visit)),
          workload |-> workload]
    ELSE [err |-> NoErr,
          workload |-> [workload EXCEPT !.containers =
             [c \in DOMAIN workload.containers |->
                IF image # <<>> THEN [workload.containers[c] EXCEPT !.image = image]
                ELSE workload.containers[c]]]]

\* The --image override (generate.go 113-132).  Without a value, the error
\* names the container with image "." that the loop over the map visits
\* first: visit is the order of that run.
ApplyImage(workload, image, visit) ==
    IF TrimSpace(image) = <<".">>
    THEN [err |-> Err("image-flag-invalid", "nothing", <<>>), workload |-> workload]
    ELSE IF DotContainers(workload) # {} /\ image = <<>>
    THEN [err |-> Err("image-needed", "container", FirstVisited(DotContainers(workload), visit)),
          workload |-> workload]
    ELSE [err |-> NoErr,
          workload |-> [workload EXCEPT !.containers =
             [c \in DOMAIN workload.containers |->
                IF workload.containers[c].image = <<".">>
                THEN [workload.containers[c] EXCEPT !.image = image]
                ELSE workload.containers[c]]]]

\* No source file is passed on.
SourceFileUnset(arg) == <<>>

\* The source file recorded for a merged workload: the loop passes &arg,
\* the variable of its own iteration.
SourceFileOf(arg) == arg

\* generate.go 134-137
AddToProject(st, arg, added) ==
    IF added.ok THEN [err |-> NoErr, state |-> added.state]
    ELSE [err |-> Err("merge", "file", arg), state |-> st]

\* generate.go 113-136
MergeWorkload(st, arg, imaged) ==
    IF imaged.err # NoErr THEN [err |-> imaged.err, state |-> st]
    ELSE AddToProject(st, arg, WithWorkload(st, imaged.workload, SourceFileOf(arg)))

\* What scoreloader.MapSpec needs to decode the containers of a document
\* into scoretypes.Workload: texts as the variables and as the content of
\* the files.
Decodable(raw) ==
    \A c \in DOMAIN raw.of["containers"].of :
        /\ "variables" \in DOMAIN raw.of["containers"].of[c].of =>
              \A k \in DOMAIN raw.of["containers"].of[c].of["variables"].of :
                  raw.of["containers"].of[c].of["variables"].of[k].kind = "scalar"
        /\ "files" \in DOMAIN raw.of["containers"].of[c].of =>
              \A t \in DOMAIN raw.of["containers"].of[c].of["files"].of :
                  "content" \in DOMAIN raw.of["containers"].of[c].of["files"].of[t].of =>
                      raw.of["containers"].of[c].of["files"].of[t].of["content"].kind = "scalar"

\* generate.go 105-132
MergeValid(st, arg, flags, env, doc) ==
    IF ~Validate(doc) THEN [err |-> Err("invalid", "file", arg), state |-> st]
    ELSE IF ~Decodable(doc) THEN [err |-> Err("map-spec", "file", arg), state |-> st]
    ELSE MergeWorkload(st, arg, ApplyImage(MapSpec(doc), flags.image.v, env.visit))

\* generate.go 97-104: the document is upgraded before it is validated.
ValidateAndMerge(st, arg, flags, env, overridden) ==
    IF overridden.err # NoErr THEN [err |-> overridden.err, state |-> st]
    ELSE IF ~ApplyCommonUpgradeTransforms(overridden.doc).ok
    THEN [err |-> Err("upgrade", "nothing", <<>>), state |-> st]
    ELSE MergeValid(st, arg, flags, env, ApplyCommonUpgradeTransforms(overridden.doc).doc)

\* generate.go 89-95
WithOverrideProperties(flags, r) ==
    IF r.err = NoErr /\ Len(flags.overrideProperty.v) > 0
    THEN ApplyOverrideProperties(flags.overrideProperty.v, r.doc)
    ELSE r

\* generate.go 82-86
WithOverridesFile(flags, env, doc) ==
    IF flags.overridesFile.v # <<>>
    THEN parseAndApplyOverrideFile(flags.overridesFile.v, env.ovContent, doc)
    ELSE [err |-> NoErr, doc |-> doc]

\* generate.go 73-78 and on
DecodeAndMerge(st, arg, flags, env, file) ==
    CASE file.kind = "missing" -> [err |-> Err("read", "file", arg), state |-> st]
      [] file.kind = "garbage" -> [err |-> Err("decode", "file", arg), state |-> st]
      [] OTHER -> ValidateAndMerge(st, arg, flags, env,
                     WithOverrideProperties(flags, WithOverridesFile(flags, env, file.doc)))

\* One iteration of the loop over the sorted arguments.
LoadFile(st, arg, flags, env) ==
    DecodeAndMerge(st, arg, flags, env, ScoreFile(arg, env.xContent))

\* for _, arg := range args: stops at the first error.
RECURSIVE LoadFiles(_, _, _, _)
RECURSIVE LoadNextFiles(_, _, _, _)
LoadNextFiles(r, files, flags, env) ==
    IF r.err # NoErr THEN r ELSE LoadFiles(r.state, files, flags, env)

LoadFiles(st, files, flags, env) ==
    IF files = <<>> THEN [err |-> NoErr, state |-> st]
    ELSE LoadNextFiles(LoadFile(st, Head(files), flags, env), Tail(files), flags, env)

\* The flag check without --image.
OverrideFlagChangedWithoutImage(flags) ==
    flags.overridesFile.changed \/ flags.overrideProperty.changed

\* generate.go 67: Lookup(...).Changed of the three override flags.
OverrideFlagChanged(flags) ==
    flags.overridesFile.changed \/ flags.overrideProperty.changed \/ flags.image.changed

\* Priming left out.
PrimeStepSkipped(st) == [ok |-> TRUE, state |-> st]

\* The error of priming dropped.
PrimeStepIgnoresError(st) == [ok |-> TRUE, state |-> WithPrimedResources(st).state]

\* Priming that keeps the records it was given.
PrimeStepKeepsOrphans(st) ==
    [ok |-> WithPrimedResources(st).ok,
     state |-> [WithPrimedResources(st).state EXCEPT !.resources = @ @@ st.resources]]

\* Priming that starts from no records.
PrimeStepFromScratch(st) == WithPrimedResources([st EXCEPT !.resources = EmptyMap])

\* generate.go 144-146: the priming step of generate.
PrimeStep(st) == WithPrimedResources(st)

\* The project may be empty.
PrimeLoadedEmptyAllowed(loaded) ==
    IF loaded.err # NoErr THEN loaded
    ELSE IF ~PrimeStep(loaded.state).ok
    THEN [err |-> Err("prime", "nothing", <<>>), state |-> PrimeStep(loaded.state).state]
    ELSE [err |-> NoErr, state |-> PrimeStep(loaded.state).state]

\* generate.go 140-146
PrimeLoaded(loaded) ==
    IF loaded.err # NoErr THEN loaded
    ELSE IF DOMAIN loaded.state.workloads = {}
    THEN [err |-> Err("empty-project", "nothing", <<>>), state |-> loaded.state]
    ELSE IF ~PrimeStep(loaded.state).ok
    THEN [err |-> Err("prime", "nothing", <<>>), state |-> PrimeStep(loaded.state).state]
    ELSE [err |-> NoErr, state |-> PrimeStep(loaded.state).state]

\* generate.go 59-148: state directory check, flag check, merge of the
\* sorted files, empty-project check and priming.  The state of the result
\* is currentState, the state in memory, as it is when RunE goes on or
\* returns the error.
\* The merge without the test for the state directory.
MergeAndPrimeAnywhere(dirExists, st, args, flags, env) ==
    IF dirExists /\ env.loadFails
    THEN [err |-> Err("load-state", "nothing", <<>>), state |-> st]
    ELSE IF Len(args) # 1 /\ OverrideFlagChanged(flags)
    THEN [err |-> Err("override-flags", "nothing", <<>>), state |-> st]
    ELSE PrimeLoaded(LoadFiles(st, SortStrings(args), flags, env))

MergeAndPrime(dirExists, st, args, flags, env) ==
    IF dirExists /\ env.loadFails
    THEN [err |-> Err("load-state", "nothing", <<>>), state |-> st]
    ELSE IF ~dirExists THEN [err |-> Err("no-state-directory", "nothing", <<>>), state |-> st]
    ELSE IF Len(args) # 1 /\ OverrideFlagChanged(flags)
    THEN [err |-> Err("override-flags", "nothing", <<>>), state |-> st]
    ELSE PrimeLoaded(LoadFiles(st, SortStrings(args), flags, env))

----------------------------------------------------------------------------
(* Conversion of a workload to an Avassa application (convert.go).         *)

\* strings.ToLower on the letters of the model.
ToLower(s) ==
    [i \in 1..Len(s) |->
        IF s[i] \in {"A", "W", "H", "T", "P", "S"}
        THEN (("A" :> "a") @@ ("W" :> "w") @@ ("H" :> "h") @@ ("T" :> "t") @@
              ("P" :> "p") @@ ("S" :> "s"))[s[i]]
        ELSE s[i]]

\* [a-z0-9]
IsAlnum(c) == (Code[c] >= 97 /\ Code[c] <= 122) \/ (Code[c] >= 48 /\ Code[c] <= 57)

\* The loop of sanitizeName: anything but a-z, 0-9 and '-' becomes '-'.
ReplaceInvalid(s) == [i \in 1..Len(s) |-> IF IsAlnum(s[i]) \/ s[i] = "-" THEN s[i] ELSE "-"]

RECURSIVE TrimLeftDash(_)
TrimLeftDash(s) == IF s # <<>> /\ Head(s) = "-" THEN TrimLeftDash(Tail(s)) ELSE s

RECURSIVE TrimRightDash(_)
TrimRightDash(s) ==
    IF s # <<>> /\ s[Len(s)] = "-" THEN TrimRightDash(SubSeq(s, 1, Len(s) - 1)) ELSE s

\* strings.Trim(s, "-")
TrimDash(s) == TrimRightDash(TrimLeftDash(s))

\* validNameRe: ^[a-z0-9]([a-z0-9\-]*[a-z0-9])?$
MatchesValidName(s) ==
    /\ s # <<>>
    /\ IsAlnum(s[1])
    /\ IsAlnum(s[Len(s)])
    /\ \A i \in 1..Len(s) : IsAlnum(s[i]) \/ s[i] = "-"

\* strings.Join(strings.FieldsFunc(s, isDash), "-")
RECURSIVE CollapseDashes(_)
RECURSIVE CollapseFields(_)
CollapseFields(t) ==
    IF t = <<>> THEN <<>>
    ELSE IF Len(t) > 1 /\ t[2] = "-"
    THEN IF TrimLeftDash(Tail(t)) = <<>> THEN <<Head(t)>>
         ELSE <<Head(t), "-">> \o CollapseDashes(Tail(t))
    ELSE <<Head(t)>> \o CollapseFields(Tail(t))

CollapseDashes(s) == CollapseFields(TrimLeftDash(s))

\* convert.go 323-334: "app" where nothing is left of the name.
ValidName(s) ==
    IF s = <<>> THEN <<"a", "p", "p">>
    ELSE IF MatchesValidName(s) THEN s
    ELSE IF TrimDash(CollapseDashes(s)) = <<>> THEN <<"a", "p", "p">>
    ELSE TrimDash(CollapseDashes(s))

\* convert.go 310-323
SanitizeLowered(in) == IF in = <<>> THEN in ELSE ValidName(TrimDash(ReplaceInvalid(in)))

sanitizeName(in) == SanitizeLowered(TrimSpace(ToLower(in)))

\* GetResourceOutputForWorkload: the outputs of the records of the
\* workload's resources, by local name; a resource without record is an
\* error.
GetResourceOutputForWorkload(st, workloadName) ==
    [ok |-> \A r \in DOMAIN st.workloads[workloadName].spec.resources :
               ReferenceId(st, <<workloadName, r>>) \in DOMAIN st.resources,
     outputs |-> [r \in {x \in DOMAIN st.workloads[workloadName].spec.resources :
                           ReferenceId(st, <<workloadName, x>>) \in DOMAIN st.resources} |->
                     st.resources[ReferenceId(st, <<workloadName, r>>)].outputs]]

\* A substitution that puts the empty string where a reference does not
\* resolve.
SubstitutionOrEmpty(path, metadata, resOutputs) ==
    CASE Len(path) = 2 /\ path[1] = "metadata" /\ path[2] \in DOMAIN metadata ->
            [ok |-> TRUE, text |-> metadata[path[2]]]
      [] Len(path) = 3 /\ path[1] = "resources" /\ path[2] \in DOMAIN resOutputs ->
            IF path[3] \in DOMAIN resOutputs[path[2]]
            THEN [ok |-> TRUE, text |-> resOutputs[path[2]][path[3]]]
            ELSE [ok |-> TRUE, text |-> <<>>]
      [] OTHER -> [ok |-> TRUE, text |-> <<>>]

\* framework.BuildSubstitutionFunction(metadata, resOutputs) applied to the
\* dot path of one ${...}.
Substitution(path, metadata, resOutputs) ==
    CASE Len(path) = 2 /\ path[1] = "metadata" /\ path[2] \in DOMAIN metadata ->
            [ok |-> TRUE, text |-> metadata[path[2]]]
      [] Len(path) = 3 /\ path[1] = "resources" /\ path[2] \in DOMAIN resOutputs ->
            IF path[3] \in DOMAIN resOutputs[path[2]]
            THEN [ok |-> TRUE, text |-> resOutputs[path[2]][path[3]]]
            ELSE [ok |-> FALSE, text |-> <<>>]
      [] OTHER -> [ok |-> FALSE, text |-> <<>>]

\* A substitution that leaves the escape as it is written.
SubstitutePartKeepsEscape(part, metadata, resOutputs) ==
    CASE part.kind = "lit" -> [ok |-> TRUE, text |-> part.text]
      [] part.kind = "esc" -> [ok |-> TRUE, text |-> <<"$", "$">>]
      [] OTHER -> Substitution(part.path, metadata, resOutputs)

SubstitutePart(part, metadata, resOutputs) ==
    IF part.kind \in {"lit", "esc"} THEN [ok |-> TRUE, text |-> part.text]
    ELSE Substitution(part.path, metadata, resOutputs)

\* framework.SubstituteString
RECURSIVE SubstituteString(_, _, _)
SubstituteString(parts, metadata, resOutputs) ==
    IF parts = <<>> THEN [ok |-> TRUE, text |-> <<>>]
    ELSE [ok |-> /\ SubstitutePart(Head(parts), metadata, resOutputs).ok
                 /\ SubstituteString(Tail(parts), metadata, resOutputs).ok,
          text |-> SubstitutePart(Head(parts), metadata, resOutputs).text
                   \o SubstituteString(Tail(parts), metadata, resOutputs).text]

\* convert.go 71-81
convertContainerVariables(input, metadata, resOutputs) ==
    [ok |-> \A k \in DOMAIN input : SubstituteString(input[k], metadata, resOutputs).ok,
     variables |-> [k \in DOMAIN input |->
                      SubstituteString(input[k], metadata, resOutputs).text]]

\* A field of a container that the document may leave out.
FieldOr(c, field, default) == IF field \in DOMAIN c THEN c[field] ELSE default

\* convert.go 108-113: the converted file holds its content, expanded or not.
ConvertedFile(ok, content) ==
    [ok |-> ok,
     file |-> [kind |-> "content", content |-> content, readable |-> TRUE, noExpand |-> TRUE]]

\* A conversion that expands every file.
ConvertFileAlwaysExpands(file, metadata, resOutputs) ==
    CASE file.kind = "none" -> ConvertedFile(FALSE, <<>>)
      [] file.kind = "source" /\ ~file.readable -> ConvertedFile(FALSE, <<>>)
      [] OTHER -> ConvertedFile(SubstituteString(file.content, metadata, resOutputs).ok,
                                <<Lit(SubstituteString(file.content, metadata, resOutputs).text)>>)

\* convert.go 85-107 for one file: kind is "content", "source" (read from
\* disk, readable or not) or "none" (neither content nor source).
ConvertFile(file, metadata, resOutputs) ==
    CASE file.kind = "none" -> ConvertedFile(FALSE, <<>>)
      [] file.kind = "source" /\ ~file.readable -> ConvertedFile(FALSE, <<>>)
      [] file.noExpand -> ConvertedFile(TRUE, file.content)
      [] OTHER -> ConvertedFile(SubstituteString(file.content, metadata, resOutputs).ok,
                                <<Lit(SubstituteString(file.content, metadata, resOutputs).text)>>)

\* convert.go 83-117
convertContainerFiles(input, metadata, resOutputs) ==
    [ok |-> \A t \in DOMAIN input : ConvertFile(input[t], metadata, resOutputs).ok,
     files |-> [t \in DOMAIN input |-> ConvertFile(input[t], metadata, resOutputs).file]]

\* convert.go 271-273: a token that is empty after trimming is left out.
AppendToken(sub, rest) ==
    [ok |-> sub.ok /\ rest.ok,
     cmd |-> IF TrimSpace(sub.text) = <<>> THEN rest.cmd
             ELSE <<TrimSpace(sub.text)>> \o rest.cmd]

\* convert.go 262-274: the tokens of command and args, substituted and
\* trimmed.
RECURSIVE CmdTokens(_, _, _)
CmdTokens(combined, metadata, resOutputs) ==
    IF combined = <<>> THEN [ok |-> TRUE, cmd |-> <<>>]
    ELSE AppendToken(SubstituteString(Head(combined), metadata, resOutputs),
                     CmdTokens(Tail(combined), metadata, resOutputs))

\* The arguments before the command.
CombinedArgsFirst(c) == FieldOr(c, "args", <<>>) \o FieldOr(c, "command", <<>>)

\* convert.go 258-261
CombinedCmd(c) == FieldOr(c, "command", <<>>) \o FieldOr(c, "args", <<>>)

\* The names of a map, the greatest first.
RECURSIVE NamesDescending(_)
NamesDescending(set) ==
    IF set = {} THEN <<>>
    ELSE NamesDescending(set \ {CHOOSE x \in set : \A y \in set : y = x \/ StrLess(x, y)})
         \o <<CHOOSE x \in set : \A y \in set : y = x \/ StrLess(x, y)>>

\* The names of a map in sort.Strings order.
RECURSIVE SortedNames(_)
SortedNames(set) ==
    IF set = {} THEN <<>>
    ELSE InsertSorted(CHOOSE x \in set : TRUE, SortedNames(set \ {CHOOSE x \in set : TRUE}))

\* The env is kept even when it is empty.
WithEnvAlways(ac, variables) == ac @@ ("env" :> variables)

\* convert.go 286-288: an empty env is left out.
WithEnv(ac, variables) == IF DOMAIN variables = {} THEN ac ELSE ac @@ ("env" :> variables)

\* An optional key of the manifest (omitempty).
WithKey(rec, key, present, value) == IF present THEN rec @@ (key :> value) ELSE rec

\* asInt of an annotation, a string: strconv.Atoi of the trimmed text, or the
\* default; an absent annotation is the empty text.
asInt(v, def) ==
    CASE TrimSpace(v) = <<>> -> def
      [] Head(TrimSpace(v)) \in {"-", "+"} ->
            IF Len(TrimSpace(v)) > 1 /\ ParseUint(Tail(TrimSpace(v))).ok
            THEN (IF Head(TrimSpace(v)) = "-" THEN 0 - ParseUint(Tail(TrimSpace(v))).n
                  ELSE ParseUint(Tail(TrimSpace(v))).n)
            ELSE def
      [] OTHER -> IF ParseUint(TrimSpace(v)).ok THEN ParseUint(TrimSpace(v)).n ELSE def

\* asBool of an annotation, a string.
asBool(v, def) ==
    CASE v = <<"t", "r", "u", "e">> -> TRUE
      [] v = <<"f", "a", "l", "s", "e">> -> FALSE
      [] OTHER -> def

\* The first value whatever it holds.
firstValue(v, def) == v

firstNonEmpty(v, def) == IF TrimSpace(v) # <<>> THEN v ELSE def

\* convert.go 199-203: metadata.annotations, or none.
Annotations(metadata) == FieldOr(metadata, "annotations", EmptyMap)

\* convert.go 419-434: the headers by trimmed name, a header without name
\* left out, the values of a repeated name joined unless the first is empty.
RECURSIVE RequestHeaders(_, _)
RequestHeaders(httpHeaders, headers) ==
    IF httpHeaders = <<>> THEN headers
    ELSE RequestHeaders(Tail(httpHeaders),
            CASE TrimSpace(Head(httpHeaders).name) = <<>> -> headers
              [] /\ TrimSpace(Head(httpHeaders).name) \in DOMAIN headers
                 /\ headers[TrimSpace(Head(httpHeaders).name)] # <<>> ->
                    [headers EXCEPT ![TrimSpace(Head(httpHeaders).name)] =
                        @ \o <<",", " ">> \o TrimSpace(Head(httpHeaders).value)]
              [] OTHER ->
                    (TrimSpace(Head(httpHeaders).name) :> TrimSpace(Head(httpHeaders).value))
                    @@ headers)

\* convert.go 410-436: an absent scheme or host is the empty text.
avassaHTTPProbe(httpGet) ==
    WithKey(
      WithKey(
        WithKey([path |-> httpGet.path, port |-> httpGet.port],
                "scheme", ToLower(httpGet.scheme) # <<>>, ToLower(httpGet.scheme)),
        "host", httpGet.host # <<>>, httpGet.host),
      "requestHeaders",
      DOMAIN RequestHeaders(httpGet.httpHeaders, EmptyMap) # {},
      RequestHeaders(httpGet.httpHeaders, EmptyMap))

\* convert.go 403-439; a probe that is nil has neither exec nor httpGet.
mapScoreProbeToAvassa(p) ==
    IF p.hasExec /\ p.command # <<>>
    THEN [present |-> TRUE, spec |-> [exec |-> [cmd |-> p.command]]]
    ELSE IF p.hasHttpGet
    THEN [present |-> TRUE, spec |-> [http |-> avassaHTTPProbe(p.httpGet)]]
    ELSE [present |-> FALSE, spec |-> EmptyMap]

\* A probe of a container: exec with a command, httpGet, both or neither.
Probe(hasExec, command, hasHttpGet, scheme, httpHeaders) ==
    [hasExec |-> hasExec, command |-> command, hasHttpGet |-> hasHttpGet,
     httpGet |-> [path |-> <<"/">>, port |-> 80, scheme |-> scheme, host |-> <<>>,
                  httpHeaders |-> httpHeaders]]

\* convert.go 290-300
avassaProbes(c) ==
    WithKey(
      WithKey(EmptyMap, "liveness",
              mapScoreProbeToAvassa(
                  FieldOr(c, "livenessProbe", Probe(FALSE, <<>>, FALSE, <<>>, <<>>))).present,
              mapScoreProbeToAvassa(
                  FieldOr(c, "livenessProbe", Probe(FALSE, <<>>, FALSE, <<>>, <<>>))).spec),
      "readiness",
      mapScoreProbeToAvassa(
          FieldOr(c, "readinessProbe", Probe(FALSE, <<>>, FALSE, <<>>, <<>>))).present,
      mapScoreProbeToAvassa(
          FieldOr(c, "readinessProbe", Probe(FALSE, <<>>, FALSE, <<>>, <<>>))).spec)

\* convert.go 244-301; asString of an absent annotation is the empty text.
avassaContainer(cname, c, cmd, annotations) ==
    WithKey(
     WithKey(
      WithKey(
        WithKey(
          WithEnv(
            WithKey([name |-> cname, mounts |-> <<>>,
                     containerLogSize |->
                        firstNonEmpty(FieldOr(annotations, "avassa.log-size", <<>>),
                                      <<"1", "0", "0", " ", "M", "B">>),
                     shutdownTimeout |->
                        firstNonEmpty(FieldOr(annotations, "avassa.shutdown-timeout", <<>>),
                                      <<"1", "0", "s">>),
                     image |-> c.image], "cmd", cmd # <<>>, cmd),
            c.variables),
          "containerLogArchive",
          asBool(FieldOr(annotations, "avassa.log-archive", <<>>), FALSE), TRUE),
        "approle",
        FieldOr(annotations, "avassa.approle", <<>>) # <<>>,
        FieldOr(annotations, "avassa.approle", <<>>)),
      "onMountedFileChange",
      asBool(FieldOr(annotations, "avassa.on-mounted-file-change-restart", <<>>), FALSE),
      [restart |-> TRUE]),
     "probes", DOMAIN avassaProbes(c) # {}, avassaProbes(c))

\* convert.go 224-229, 232-302
avassaService(appName, containers, names, cmds, annotations) ==
    [name |-> appName \o <<"-", "s", "e", "r", "v", "i", "c", "e">>,
     mode |-> "replicated",
     replicas |-> asInt(FieldOr(annotations, "avassa.replicas", <<>>), 1),
     sharePidNamespace |->
        asBool(FieldOr(annotations, "avassa.share-pid-namespace", <<>>), FALSE),
     containers |-> [i \in 1..Len(names) |->
                        avassaContainer(names[i], containers[names[i]], cmds[names[i]].cmd,
                                        annotations)]]

\* convert.go 206-221, 303
avassaApplication(appName, containers, cmds, metadata) ==
    WithKey(
      WithKey(
        WithKey(
          [name |-> appName,
           onMutableVariableChange |->
              IF FieldOr(Annotations(metadata), "avassa.on-mutable-variable-change", <<>>) # <<>>
              THEN FieldOr(Annotations(metadata), "avassa.on-mutable-variable-change", <<>>)
              ELSE
                   <<"r", "e", "s", "t", "a", "r", "t", "-", "s", "e", "r", "v", "i", "c", "e", "-", "i", "n", "s", "t", "a", "n", "c", "e">>,
           services |-> <<avassaService(appName, containers, SortedNames(DOMAIN containers),
                                        cmds, Annotations(metadata))>>],
          "labels",
          DOMAIN FieldOr(metadata, "labels", EmptyMap) # {},
          FieldOr(metadata, "labels", EmptyMap)),
        "network",
        FieldOr(Annotations(metadata), "avassa.network", <<>>) # <<>>,
        [sharedApplicationNetwork |-> FieldOr(Annotations(metadata), "avassa.network", <<>>)]),
      "version",
      TrimSpace(FieldOr(Annotations(metadata), "avassa.io/version", <<>>)) # <<>>,
      TrimSpace(FieldOr(Annotations(metadata), "avassa.io/version", <<>>)))

\* convert.go 194-197
AppName(named, workloadName) == IF named = <<>> THEN sanitizeName(workloadName) ELSE named

\* convert.go 267-269, 304: a token that does not substitute fails the build.
BuiltApplication(appName, containers, cmds, metadata) ==
    IF \E c \in DOMAIN cmds : ~cmds[c].ok
    THEN [ok |-> FALSE, manifest |-> EmptyMap]
    ELSE [ok |-> TRUE, manifest |-> avassaApplication(appName, containers, cmds, metadata)]

buildAvassaApplication(metadata, workloadName, containers, resOutputs) ==
    BuiltApplication(AppName(sanitizeName(FieldOr(metadata, "name", <<>>)), workloadName), containers,
                     [c \in DOMAIN containers |->
                         CmdTokens(CombinedCmd(containers[c]), metadata, resOutputs)],
                     metadata)

\* convert.go 35-57: the variables and files of every container are
\* converted, and the application is built of the containers with their
\* converted variables; the first error ends the call.
ConvertContainers(spec, workloadName, res) ==
    IF \/ ~res.ok
       \/ \E c \in DOMAIN spec.containers :
             \/ ~convertContainerVariables(spec.containers[c].variables,
                                           spec.metadata, res.outputs).ok
             \/ ~convertContainerFiles(FieldOr(spec.containers[c], "files", EmptyMap),
                                       spec.metadata, res.outputs).ok
    THEN [ok |-> FALSE, manifest |-> EmptyMap]
    ELSE buildAvassaApplication(spec.metadata, workloadName,
             [c \in DOMAIN spec.containers |->
                [spec.containers[c] EXCEPT !.variables =
                    convertContainerVariables(spec.containers[c].variables,
                                              spec.metadata, res.outputs).variables]],
             res.outputs)

\* The outputs of every resource of the project, by local name.
ResourceOutputsOfProject(st, workloadName) ==
    [ok |-> TRUE,
     outputs |-> [r \in {ref[2] : ref \in References(st)} |->
                    st.resources[ReferenceId(st, CHOOSE ref \in References(st) : ref[2] = r)].outputs]]

\* convert.go 35: the view of the resource outputs the workload converts with.
ResourceOutputs(st, workloadName) == GetResourceOutputForWorkload(st, workloadName)

----------------------------------------------------------------------------
(* convert.Workload in memory (convert.go 35-51, 71-117): which map and    *)
(* which pointer target every statement reads and stores in.  An object (a *)
(* map, or what a pointer points to) is known by the tuple <<what,         *)
(* workload, container, file target>>, and memory is a function from       *)
(* objects to what they hold.  The objects of the state are Containers,    *)
(* Variables, Files, Source, Content and NoExpand; those a call makes are  *)
(* containers, outMap, output, content and bTrue, after the variables of   *)
(* the code that hold them.                                                *)

\* The nil map and the nil pointer.
Nil == <<"nil", <<>>, <<>>, "">>

\* The maps and pointer targets a project state is made of: per workload
\* the map Spec.Containers, per container the maps Variables and Files (a
\* container without files has the nil map), per file what its non-nil
\* pointers Source, Content and NoExpand point to.
StateObjects(st) ==
    {Nil}
    \cup {<<"Containers", w, <<>>, "">> : w \in DOMAIN st.workloads}
    \cup UNION {{<<"Variables", w, c, "">> : c \in DOMAIN st.workloads[w].spec.containers} :
                  w \in DOMAIN st.workloads}
    \cup UNION {{<<"Files", w, c, "">> :
                    c \in {x \in DOMAIN st.workloads[w].spec.containers :
                             "files" \in DOMAIN st.workloads[w].spec.containers[x]}} :
                  w \in DOMAIN st.workloads}
    \cup UNION {UNION {{a \in {"Source", "Content", "NoExpand"} \X {w} \X {c}
                                \X DOMAIN st.workloads[w].spec.containers[c].files :
                          \/ a[1] = "Source"
                             /\ st.workloads[w].spec.containers[c].files[a[4]].kind = "source"
                          \/ a[1] = "Content"
                             /\ st.workloads[w].spec.containers[c].files[a[4]].kind = "content"
                          \/ a[1] = "NoExpand"
                             /\ st.workloads[w].spec.containers[c].files[a[4]].noExpand} :
                         c \in {x \in DOMAIN st.workloads[w].spec.containers :
                                  "files" \in DOMAIN st.workloads[w].spec.containers[x]}} :
                  w \in DOMAIN st.workloads}

\* The memory that holds a project state.  An entry of Containers is a
\* struct: its Variables and Files are references to maps, its other fields
\* are values.  An entry of Files is a struct whose Source, Content and
\* NoExpand are pointers (a NoExpand that is unset or false is nil here);
\* atSource is what os.ReadFile of the source gives or fails to give.
HeapOf(st) ==
    [a \in StateObjects(st) |->
        CASE a[1] = "Containers" ->
               [c \in DOMAIN st.workloads[a[2]].spec.containers |->
                  [k \in DOMAIN st.workloads[a[2]].spec.containers[c] |->
                     CASE k = "variables" -> <<"Variables", a[2], c, "">>
                       [] k = "files" -> <<"Files", a[2], c, "">>
                       [] OTHER -> st.workloads[a[2]].spec.containers[c][k]]]
          [] a[1] = "Variables" -> st.workloads[a[2]].spec.containers[a[3]].variables
          [] a[1] = "Files" ->
               [t \in DOMAIN st.workloads[a[2]].spec.containers[a[3]].files |->
                  [source |-> IF st.workloads[a[2]].spec.containers[a[3]].files[t].kind = "source"
                              THEN <<"Source", a[2], a[3], t>> ELSE Nil,
                   content |-> IF st.workloads[a[2]].spec.containers[a[3]].files[t].kind = "content"
                               THEN <<"Content", a[2], a[3], t>> ELSE Nil,
                   noExpand |-> IF st.workloads[a[2]].spec.containers[a[3]].files[t].noExpand
                                THEN <<"NoExpand", a[2], a[3], t>> ELSE Nil,
                   atSource |->
                     [readable |-> st.workloads[a[2]].spec.containers[a[3]].files[t].readable,
                      content |->
                        IF st.workloads[a[2]].spec.containers[a[3]].files[t].kind = "content"
                        THEN <<>>
                        ELSE st.workloads[a[2]].spec.containers[a[3]].files[t].content]]]
          [] a[1] = "Source" -> <<"p">>
          [] a[1] = "Content" -> st.workloads[a[2]].spec.containers[a[3]].files[a[4]].content
          [] a[1] = "NoExpand" -> TRUE
          [] OTHER -> EmptyMap]

\* convert.go 87-101 and 104, the reads of one file struct: Content is
\* looked at before Source, NoExpand counts when it points to true.
FileRead(heap, file) ==
    [kind |-> IF file.content # Nil THEN "content"
              ELSE IF file.source # Nil THEN "source" ELSE "none",
     content |-> IF file.content # Nil THEN heap[file.content] ELSE file.atSource.content,
     readable |-> file.atSource.readable,
     noExpand |-> IF file.noExpand # Nil THEN heap[file.noExpand] ELSE FALSE]

\* The containers that the map `containers` holds: every struct with the
\* maps and pointer targets it refers to.
ContainersRead(heap, containers) ==
    [c \in DOMAIN heap[containers] |->
        [k \in DOMAIN heap[containers][c] |->
            CASE k = "variables" -> heap[heap[containers][c].variables]
              [] k = "files" ->
                   [t \in DOMAIN heap[heap[containers][c].files] |->
                      FileRead(heap, heap[heap[containers][c].files][t])]
              [] OTHER -> heap[containers][c][k]]]

\* convert.go 71-81 in memory: reads the map `input`; line 72 makes outMap,
\* line 78 stores every substituted value in it, line 80 returns it.  The
\* loop ends at the first value that fails (76), with outMap given up.
VariablesWritten(heap, input, outMap, metadata, resOutputs) ==
    [ok |-> convertContainerVariables(heap[input], metadata, resOutputs).ok,
     ref |-> IF convertContainerVariables(heap[input], metadata, resOutputs).ok
             THEN outMap ELSE Nil,
     heap |-> (outMap :>
                 [k \in {x \in DOMAIN heap[input] :
                           SubstituteString(heap[input][x], metadata, resOutputs).ok} |->
                    <<Lit(SubstituteString(heap[input][k], metadata, resOutputs).text)>>])
              @@ heap]

\* convert.go 83-117 in memory: reads the map `input` and what the pointers
\* of its files point to; line 84 makes output; `file` is a copy of the
\* entry (85), lines 110-113 clear the copy's Source and point its Content
\* and NoExpand to the new variables content and bTrue, line 114 stores the
\* copy in output, line 116 returns output.  What is stored before an error
\* is part of nothing that is returned.
FilesWritten(heap, input, w, c, metadata, resOutputs) ==
    [ok |-> convertContainerFiles([t \in DOMAIN heap[input] |->
                                      FileRead(heap, heap[input][t])],
                                  metadata, resOutputs).ok,
     ref |-> IF convertContainerFiles([t \in DOMAIN heap[input] |->
                                          FileRead(heap, heap[input][t])],
                                      metadata, resOutputs).ok
             THEN <<"output", w, c, "">> ELSE Nil,
     heap |-> (<<"output", w, c, "">> :>
                 [t \in DOMAIN heap[input] |->
                    [heap[input][t] EXCEPT !.source = Nil,
                                           !.content = <<"content", w, c, t>>,
                                           !.noExpand = <<"bTrue", w, c, t>>]])
              @@ [a \in {"content"} \X {w} \X {c} \X DOMAIN heap[input] |->
                    ConvertFile(FileRead(heap, heap[input][a[4]]),
                                metadata, resOutputs).file.content]
              @@ [a \in {"bTrue"} \X {w} \X {c} \X DOMAIN heap[input] |-> TRUE]
              @@ heap]

RECURSIVE LoopContainers(_, _, _, _, _, _)

\* convert.go 47-50: `container`, the copy of the entry, gets the converted
\* files; line 50 stores the copy under its name in the map `containers`.
AfterFiles(containers, w, c, rest, container, metadata, resOutputs, files) ==
    IF ~files.ok THEN [ok |-> FALSE, heap |-> files.heap]
    ELSE LoopContainers(
             (containers :>
                ((c :> [k \in DOMAIN container \cup {"files"} |->
                          IF k = "files" THEN files.ref ELSE container[k]])
                 @@ files.heap[containers]))
             @@ files.heap,
             containers, w, rest, metadata, resOutputs)

\* convert.go 44-47: the copy gets the converted variables, then its files
\* are converted.
AfterVariables(containers, w, c, rest, container, metadata, resOutputs, variables) ==
    IF ~variables.ok THEN [ok |-> FALSE, heap |-> variables.heap]
    ELSE AfterFiles(containers, w, c, rest,
                    [container EXCEPT !.variables = variables.ref],
                    metadata, resOutputs,
                    FilesWritten(variables.heap, FieldOr(container, "files", Nil),
                                 w, c, metadata, resOutputs))

\* convert.go 43-51: the loop over the map `containers`, in the order the
\* range visits its keys; it returns at the first container that fails.
LoopContainers(heap, containers, w, order, metadata, resOutputs) ==
    IF order = <<>> THEN [ok |-> TRUE, heap |-> heap]
    ELSE AfterVariables(containers, w, Head(order), Tail(order),
                        heap[containers][Head(order)], metadata, resOutputs,
                        VariablesWritten(heap, heap[containers][Head(order)].variables,
                                         <<"outMap", w, Head(order), "">>,
                                         metadata, resOutputs))

\* The loop working on the map of the state itself.
StateContainers(heap, containers, w) == [ref |-> containers, heap |-> heap]

\* convert.go 41-42: spec is a copy of the workload's Spec, whose Containers
\* is the state's map; maps.Clone makes a new map with the same entries.
\* An entry is a struct, so its copy refers to the Variables and Files maps
\* of the state.
ClonedContainers(heap, containers, w) ==
    [ref |-> <<"containers", w, <<>>, "">>,
     heap |-> (<<"containers", w, <<>>, "">> :> heap[containers]) @@ heap]

\* convert.go 35-51 in memory: nothing is made or stored when the resource
\* outputs fail (36-38).
WorkloadInMemory(st, workloadName, order, res) ==
    IF ~res.ok THEN [ok |-> FALSE, heap |-> HeapOf(st)]
    ELSE LoopContainers(
             ClonedContainers(HeapOf(st), <<"Containers", workloadName, <<>>, "">>,
                              workloadName).heap,
             ClonedContainers(HeapOf(st), <<"Containers", workloadName, <<>>, "">>,
                              workloadName).ref,
             workloadName, order, st.workloads[workloadName].spec.metadata, res.outputs)

\* The project state when Workload returns: what the state's own Containers
\* maps, and the maps and pointers their entries refer to, hold after the
\* stores of lines 42-51.  Lines 53-68 store in nothing the state refers to
\* (buildAvassaApplication makes the slice it appends command and args to),
\* and no line stores in the metadata, the resources or the file of a
\* workload, or in a resource record.
StateAfterWorkload(st, workloadName, order, res) ==
    [st EXCEPT !.workloads =
        [w \in DOMAIN st.workloads |->
            [st.workloads[w] EXCEPT !.spec.containers =
                ContainersRead(WorkloadInMemory(st, workloadName, order, res).heap,
                               <<"Containers", w, <<>>, "">>)]]]

Workload(st, workloadName) ==
    ConvertContainers(st.workloads[workloadName].spec, workloadName,
                      ResourceOutputs(st, workloadName))

----------------------------------------------------------------------------
(* generate: provisioning, persisting, converting, writing                 *)
(* (generate.go 150-189).                                                  *)

\* The orders in which `for workloadName := range currentState.Workloads`
\* may visit the keys of the map.
Orders(keys) ==
    {q \in [1..Cardinality(keys) -> keys] : \A i, j \in DOMAIN q : i # j => q[i] # q[j]}

Range(q) == {q[i] : i \in DOMAIN q}

\* generate.go 162-169: stops at the first workload that does not convert.
RECURSIVE ConvertWorkloads(_, _)
ConvertNext(st, order, first) ==
    IF ~first.ok THEN [err |-> Err("convert", "workload", Head(order)), manifests |-> <<>>]
    ELSE IF ConvertWorkloads(st, Tail(order)).err # NoErr
    THEN ConvertWorkloads(st, Tail(order))
    ELSE [err |-> NoErr,
          manifests |-> <<first.manifest>> \o ConvertWorkloads(st, Tail(order)).manifests]

ConvertWorkloads(st, order) ==
    IF order = <<>> THEN [err |-> NoErr, manifests |-> <<>>]
    ELSE ConvertNext(st, order, Workload(st, Head(order)))

\* generate.go 171-175: one document per manifest, each after a separator.
Documents(manifests) ==
    [i \in 1..Len(manifests) |-> [separator |-> "---", manifest |-> manifests[i]]]

WritesToStdout(flags) == flags.stdout \/ flags.output = "-"

Outcome(err, st, file, out) == [err |-> err, persisted |-> st, outFile |-> file, stdout |-> out]

\* The output written straight to the target path: a write that fails leaves
\* the file truncated.
WriteOutputInPlace(st, file, flags, env, docs) ==
    CASE WritesToStdout(flags) -> Outcome(NoErr, st, file, docs)
      [] flags.output = "" -> Outcome(Err("no-output-file", "nothing", <<>>), st, file, <<>>)
      [] env.ioFails = "write" ->
            Outcome(Err("write-output", "nothing", <<>>), st, [exists |-> TRUE, docs |-> <<>>], <<>>)
      [] env.ioFails = "rename" -> Outcome(Err("rename-output", "nothing", <<>>), st, file, <<>>)
      [] OTHER -> Outcome(NoErr, st, [exists |-> TRUE, docs |-> docs], <<>>)

\* generate.go 176-189: os.WriteFile goes to the path with ".tmp" appended,
\* os.Rename puts it at the target; when either fails the target is as it
\* was.
WriteOutput(st, file, flags, env, docs) ==
    CASE WritesToStdout(flags) -> Outcome(NoErr, st, file, docs)
      [] flags.output = "" -> Outcome(Err("no-output-file", "nothing", <<>>), st, file, <<>>)
      [] env.ioFails = "write" -> Outcome(Err("write-output", "nothing", <<>>), st, file, <<>>)
      [] env.ioFails = "rename" -> Outcome(Err("rename-output", "nothing", <<>>), st, file, <<>>)
      [] OTHER -> Outcome(NoErr, st, [exists |-> TRUE, docs |-> docs], <<>>)

\* generate.go 162-175
ConvertAndWrite(st, file, flags, env, converted) ==
    IF converted.err # NoErr THEN Outcome(converted.err, st, file, <<>>)
    ELSE WriteOutput(st, file, flags, env, Documents(converted.manifests))

\* The state in memory saved when provisioning failed.
PersistAndConvertKeepsFailed(st, file, flags, env, provisioned) ==
    IF ~provisioned.ok
    THEN Outcome(Err("provision", "nothing", <<>>), provisioned.state, file, <<>>)
    ELSE IF env.persistFails THEN Outcome(Err("persist", "nothing", <<>>), st, file, <<>>)
    ELSE ConvertAndWrite(provisioned.state, file, flags, env,
                         ConvertWorkloads(provisioned.state, env.order))

\* generate.go 152-169: sd.State = *currentState; sd.Persist() comes before
\* the workloads are converted.  A Persist that fails leaves the state file
\* as it was (the store writes to a temporary file and renames it), and
\* nothing is converted or written.
PersistAndConvert(st, file, flags, env, provisioned) ==
    IF ~provisioned.ok THEN Outcome(Err("provision", "nothing", <<>>), st, file, <<>>)
    ELSE IF env.persistFails THEN Outcome(Err("persist", "nothing", <<>>), st, file, <<>>)
    ELSE ConvertAndWrite(provisioned.state, file, flags, env,
                         ConvertWorkloads(provisioned.state, env.order))

\* The state in memory saved when the merge failed.
ProvisionSavesOnError(st, file, flags, env, merged) ==
    IF merged.err # NoErr THEN Outcome(merged.err, merged.state, file, <<>>)
    ELSE PersistAndConvert(st, file, flags, env,
                           ProvisionResources(merged.state, env.provisionerFails))

\* generate.go 150-154
Provision(st, file, flags, env, merged) ==
    IF merged.err # NoErr THEN Outcome(merged.err, st, file, <<>>)
    ELSE PersistAndConvert(st, file, flags, env,
                           ProvisionResources(merged.state, env.provisionerFails))

\* generate's RunE: st is the state LoadStateDirectory returns, file the
\* output file as it is; the result is the error, the state on disk, the
\* output file and what was printed.
RunE(dirExists, st, file, args, flags, env) ==
    Provision(st, file, flags, env, MergeAndPrime(dirExists, st, args, flags, env))

\* What a run meets after the merge: the provisioners, the state store, the
\* iteration of the map of workloads and the output file.
After(provisionerFails, persistFails, order, ioFails) ==
    [provisionerFails |-> provisionerFails, persistFails |-> persistFails,
     order |-> order, ioFails |-> ioFails]

\* The environments in which the rest of a run can differ: only a run whose
\* merge succeeds reaches the provisioners, only one whose provisioners
\* succeed the state store, and only one whose state is saved the map
\* iteration and the output file.
Environments(args, flags, before, merged) ==
    IF merged.err # NoErr
    THEN {[args |-> args, flags |-> flags, env |-> before @@ After(FALSE, FALSE, <<>>, "none")]}
    ELSE {[args |-> args, flags |-> flags, env |-> before @@ after] :
            after \in (IF NeedsProvisioning(merged.state)
                       THEN {After(TRUE, FALSE, <<>>, "none")} ELSE {})
                      \cup {After(FALSE, TRUE, <<>>, "none")}
                      \cup {After(FALSE, FALSE, order, io) :
                              order \in Orders(DOMAIN merged.state.workloads),
                              io \in {"none", "write", "rename"}}}

\* What a run meets up to the merge: a state directory that is there but
\* cannot be loaded, whatever the files hold, or else the content of x,
\* which may also hold the documents of DocX, the content of the overrides
\* file, and the order in which the loop over the containers of a workload
\* visits them, which shows only where two containers have image ".".  At a
\* path whose content is not fixed there may be nothing, text that is no YAML
\* mapping (the `"blah"` of the tests), or the empty mapping `{}` that the
\* schema rejects.
Before(dirExists, args, flags) ==
    {[xContent |-> "missing", ovContent |-> "missing", visit |-> <<>>, loadFails |-> TRUE] :
        lf \in IF dirExists THEN {TRUE} ELSE {}}
    \cup UNION {{[xContent |-> x, ovContent |-> ov, visit |-> visit, loadFails |-> FALSE] :
                    ov \in IF flags.overridesFile.v # <<>>
                           THEN {"missing", "garbage", "empty", "overrides"} ELSE {"missing"},
                    visit \in IF x = "dots" THEN Orders({Main, <<"n">>}) ELSE {<<>>}} :
                  x \in IF FileX \in Range(args)
                        THEN {"missing", "garbage", "empty", "unresolved", "files", "no-target",
                              "dots"}
                        ELSE {"missing"}}

\* The invocations of generate and the environments they can meet.
Invocations(dirExists, st, longest) ==
    UNION {Environments(c[1], c[2], c[3], MergeAndPrime(dirExists, st, c[1], c[2], c[3])) :
             c \in UNION {{<<a[1], a[2], before>> : before \in Before(dirExists, a[1], a[2])} :
                            a \in (UNION {[1..n -> {FileA, FileB, FileC, FileD, FileX}] :
                                              n \in 0..longest})
                                  \X FlagChoices}}

----------------------------------------------------------------------------
(* The program: `init` creates the state directory with an empty project,  *)
(* `generate` runs on what is on disk.                                     *)

Init ==
    /\ stateDir = FALSE
    /\ persisted = EmptyState
    /\ outFile = NoFile
    /\ stdout = <<>>
    /\ lastErr = NoErr
    /\ lastArgs = <<>>
    /\ lastOverride = FALSE
    /\ lastImage = NotGiven
    /\ runs = 0
    /\ given = [of |-> "nothing"]
    /\ result = NoOutput

\* init: creates the state directory with an empty project if there is none.
InitCmd ==
    /\ ~stateDir
    /\ stateDir' = TRUE
    /\ persisted' = EmptyState
    /\ stdout' = <<>>
    /\ lastErr' = NoErr
    /\ lastArgs' = <<>>
    /\ lastOverride' = FALSE
    /\ lastImage' = NotGiven
    /\ UNCHANGED <<outFile, runs, given, result>>

Ran(args, flags, r) ==
    /\ persisted' = r.persisted
    /\ outFile' = r.outFile
    /\ stdout' = r.stdout
    /\ lastErr' = r.err
    /\ lastArgs' = args
    /\ lastOverride' = (flags.overridesFile.changed \/ flags.overrideProperty.changed
                        \/ flags.image.changed)
    /\ lastImage' = flags.image
    /\ runs' = runs + 1
    /\ UNCHANGED <<stateDir, given, result>>

Generate ==
    /\ runs < MaxRuns
    /\ \E call \in Invocations(stateDir, persisted,
                                 IF runs = 0 THEN MaxArgs ELSE MaxLaterArgs) :
          Ran(call.args, call.flags,
              RunE(stateDir, persisted, outFile, call.args, call.flags, call.env))

Next == InitCmd \/ Generate

Spec == Init /\ [][Next]_vars

----------------------------------------------------------------------------
(* convert.Workload on its own: one call on a state with two workloads.    *)

\* No command has run.
Idle ==
    /\ stateDir = FALSE
    /\ persisted = EmptyState
    /\ outFile = NoFile
    /\ stdout = <<>>
    /\ lastErr = NoErr
    /\ lastArgs = <<>>
    /\ lastOverride = FALSE
    /\ lastImage = NotGiven
    /\ runs = 0

\* The function under study returns.
Returns(out) ==
    /\ result.of = "nothing"
    /\ result' = out
    /\ UNCHANGED <<stateDir, persisted, outFile, stdout, lastErr, lastArgs, lastOverride,
                   lastImage, runs, given>>

\* What a variable, a file content or a command token may hold: plain text,
\* the metadata name, an unknown metadata key, an output of the workload's
\* own resource, an output that resource does not have, an output of the
\* other workload's resource, text with an escaped dollar, and blanks.
ValueChoices ==
    {<<Lit(<<"v">>)>>,
     <<Ref(<<"metadata", "name">>)>>,
     <<Ref(<<"metadata", "x">>)>>,
     <<Ref(<<"resources", "db", "host">>)>>,
     <<Ref(<<"resources", "db", "port">>)>>,
     <<Ref(<<"resources", "cache", "host">>)>>,
     <<Lit(<<"a">>), [kind |-> "esc", text |-> <<"$">>, path |-> <<>>], Lit(<<"b">>)>>,
     <<Lit(<<" ">>), Ref(<<"metadata", "name">>), Lit(<<" ">>)>>,
     <<Lit(<<" ">>)>>}

PlainContainer == [image |-> <<"i">>, variables |-> EmptyMap]

\* The containers of workload w1: m alone, holding the value in one of the
\* places that are expanded or in a file that is not, or m with containers
\* whose names sort before it.
ContainersChoices ==
    {(Main :> c) : c \in
            {[PlainContainer EXCEPT !.variables = ("K" :> v)] : v \in ValueChoices}
            \cup {[PlainContainer EXCEPT !.variables = ("K" :> v) @@ ("L" :> <<Lit(<<"v">>)>>)] :
                     v \in ValueChoices}
            \cup {PlainContainer @@ ("files" :> ("f" :> [kind |-> k[1], content |-> v,
                                                          readable |-> k[2], noExpand |-> k[3]])) :
                     v \in ValueChoices,
                     k \in {<<"content", TRUE, FALSE>>, <<"content", TRUE, TRUE>>,
                            <<"source", TRUE, FALSE>>, <<"source", FALSE, FALSE>>,
                            <<"none", TRUE, FALSE>>}}
            \cup {PlainContainer @@ (k :> p) :
                     k \in {"livenessProbe", "readinessProbe"},
                     p \in {Probe(TRUE, <<<<"c">>, <<"d">>>>, TRUE, <<>>, <<>>),
                            Probe(TRUE, <<<<"c">>>>, FALSE, <<>>, <<>>),
                            Probe(FALSE, <<>>, TRUE, <<"H", "T", "T", "P", "S">>,
                                  <<[name |-> <<" ", "a">>, value |-> <<"v", " ">>],
                                    [name |-> <<" ">>, value |-> <<"v">>],
                                    [name |-> <<"a">>, value |-> <<"w">>]>>),
                            Probe(TRUE, <<>>, TRUE, <<>>, <<>>),
                            Probe(TRUE, <<>>, FALSE, <<>>, <<>>),
                            Probe(FALSE, <<>>, FALSE, <<>>, <<>>)}}
            \cup {PlainContainer
                  @@ ("livenessProbe" :> Probe(TRUE, <<<<"c">>>>, TRUE, <<>>, <<>>))
                  @@ ("readinessProbe" :> Probe(FALSE, <<>>, TRUE, <<>>, <<>>))}
            \cup {[PlainContainer EXCEPT !.variables = ("K" :> <<Ref(<<"metadata", "name">>)>>)]
                  @@ ("files" :> ("f" :> [kind |-> "content",
                                          content |-> <<Ref(<<"resources", "db", "host">>)>>,
                                          readable |-> TRUE, noExpand |-> FALSE]))}
            \cup {PlainContainer @@ ("command" :> <<v>>) : v \in ValueChoices}
            \cup {PlainContainer @@ ("command" :> <<<<Lit(<<"c">>)>>>>) @@ ("args" :> <<<<Lit(<<"d">>)>>, v>>) :
                     v \in ValueChoices}}
    \cup {(Main :> c) @@ (<<"b">> :> PlainContainer) @@ (<<"W">> :> PlainContainer) :
             c \in {[PlainContainer EXCEPT !.variables = ("K" :> v)] : v \in ValueChoices}}

OutputChoices == {("host" :> <<"h">>), ("host" :> <<"j">>)}

\* A provisioned project: workload w1 uses resource db, workload w2 uses
\* resource cache.
ProjectWith(containers, more, db, cache, dbOutputs, cacheOutputs) ==
    [workloads |->
        (W1 :> [spec |-> [metadata |-> ("name" :> W1) @@ more, containers |-> containers,
                          resources |-> ("db" :> db)],
                file |-> FileA]) @@
        (W2 :> [spec |-> [metadata |-> ("name" :> W2),
                          containers |-> (Main :> [PlainContainer EXCEPT !.variables =
                                             ("H" :> <<Ref(<<"resources", "cache", "host">>)>>)]),
                          resources |-> ("cache" :> cache)],
                file |-> FileB]),
     resources |->
        (CanonicalId(db) :> [NewResource(db, {W1}) EXCEPT !.outputs = dbOutputs]) @@
        (CanonicalId(cache) :> [NewResource(cache, {W2}) EXCEPT !.outputs = cacheOutputs])]

\* The projects converted.  The metadata of workload w1 holds, besides its
\* name, nothing, an annotation that is not one of avassa's, every avassa
\* annotation and a label, or avassa annotations whose values do not parse.
Projects ==
    {ProjectWith(containers, more,
                 [type |-> "T", class |-> Unset, id |-> Unset, params |-> ("size" :> "1")],
                 [type |-> "T", class |-> Unset, id |-> "x", params |-> ("size" :> "1")],
                 dbOutputs, cacheOutputs) :
        containers \in ContainersChoices,
        dbOutputs \in OutputChoices, cacheOutputs \in OutputChoices,
        more \in
               {EmptyMap,
                ("annotations" :> ("other" :> <<"v">>)),
                ("annotations" :>
                   (("avassa.on-mutable-variable-change" :> <<"x">>) @@
                    ("avassa.network" :> <<"n">>) @@
                    ("avassa.io/version" :> <<" ", "1", " ">>) @@
                    ("avassa.replicas" :> <<" ", "3", " ">>) @@
                    ("avassa.share-pid-namespace" :> <<"t", "r", "u", "e">>) @@
                    ("avassa.log-size" :> <<"2">>) @@
                    ("avassa.log-archive" :> <<"t", "r", "u", "e">>) @@
                    ("avassa.shutdown-timeout" :> <<"2", "s">>) @@
                    ("avassa.approle" :> <<"a">>) @@
                    ("avassa.on-mounted-file-change-restart" :> <<"t", "r", "u", "e">>))) @@
                ("labels" :> ("a" :> <<"v">>)),
                ("annotations" :>
                   (("avassa.replicas" :> <<"x">>) @@
                    ("avassa.share-pid-namespace" :> <<"1">>) @@
                    ("avassa.log-size" :> <<" ">>) @@
                    ("avassa.io/version" :> <<" ">>) @@
                    ("avassa.on-mounted-file-change-restart" :> <<"f", "a", "l", "s", "e">>)))}}

InitWorkload ==
    /\ Idle
    /\ given \in {[of |-> "Workload", st |-> st, w |-> w] : st \in Projects, w \in {W1, W2}}
    /\ result = NoOutput

ConvertWorkload ==
    /\ given.of = "Workload"
    /\ \E order \in Orders(DOMAIN given.st.workloads[given.w].spec.containers) :
          Returns([of |-> "Workload", out |-> Workload(given.st, given.w),
                   after |-> StateAfterWorkload(given.st, given.w, order,
                                                ResourceOutputs(given.st, given.w)),
                   containers |->
                      IF WorkloadInMemory(given.st, given.w, order,
                                          ResourceOutputs(given.st, given.w)).ok
                      THEN ContainersRead(
                               WorkloadInMemory(given.st, given.w, order,
                                                ResourceOutputs(given.st, given.w)).heap,
                               ClonedContainers(HeapOf(given.st),
                                                <<"Containers", given.w, <<>>, "">>,
                                                given.w).ref)
                      ELSE EmptyMap])

SpecWorkload == InitWorkload /\ [][ConvertWorkload]_vars

----------------------------------------------------------------------------
(* The application name: buildAvassaApplication on a workload with one     *)
(* container, for every metadata name over a small alphabet.               *)

MaxNameLen == 4

\* The workload is stored under its metadata name.  Names of a letter, a
\* digit, a dash, a blank, punctuation and an upper-case letter.
InitName ==
    /\ Idle
    /\ given \in {[of |-> "name", metadata |-> ("name" :> n), workloadName |-> n] :
            n \in UNION {[1..k -> {"a", "1", "-", " ", "!", "A"}] : k \in 1..MaxNameLen}}
    /\ result = NoOutput

BuildNamed ==
    /\ given.of = "name"
    /\ Returns([of |-> "name",
                out |-> buildAvassaApplication(given.metadata, given.workloadName,
                                               (Main :> PlainContainer), EmptyMap)])

SpecName == InitName /\ [][BuildNamed]_vars

----------------------------------------------------------------------------
(* encodeManifestWithNameFirst: the yaml node tree of a manifest            *)
(* (generate.go 246-318).                                                  *)

\* A value of a manifest: kind is "nil", "string", "bool", "int", "seq" or
\* "map"; the fields the kind does not use are empty.
Value(kind, str, int, bool, items, fields) ==
    [kind |-> kind, str |-> str, int |-> int, bool |-> bool, items |-> items,
     fields |-> fields]

\* yaml.Node: content holds the elements of a sequence, or the keys and
\* values of a mapping in turn.
Node(kind, tag, value, content) ==
    [kind |-> kind, tag |-> tag, value |-> value, content |-> content]

NameKey == <<"n", "a", "m", "e">>
ContainersKey == <<"c", "o", "n", "t", "a", "i", "n", "e", "r", "s">>

\* fmt.Sprintf("%d", n)
RECURSIVE Decimal(_)
Decimal(n) ==
    IF n < 0 THEN <<"-">> \o Decimal(0 - n)
    ELSE IF n < 10 THEN <<<<"0", "1", "2", "3", "4", "5", "6", "7", "8", "9">>[n + 1]>>
    ELSE Decimal(n \div 10) \o Decimal(n % 10)

IsNotName(k) == k # NameKey

\* generate.go 285-293: "name" moves to the front, the keys before it shift.
MoveNameFirst(keys) ==
    IF \E i \in DOMAIN keys : keys[i] = NameKey
    THEN <<NameKey>> \o SelectSeq(keys, IsNotName)
    ELSE keys

\* The same keys left in sorted order.
KeyOrderSorted(t, parentKey) == SortedNames(DOMAIN t)

\* generate.go 276-297
KeyOrder(t, parentKey) ==
    IF parentKey = ContainersKey THEN MoveNameFirst(SortedNames(DOMAIN t))
    ELSE SortedNames(DOMAIN t)

RECURSIVE toYAMLNode(_, _)
RECURSIVE MappingContent(_, _)

\* generate.go 298-303
MappingContent(t, keys) ==
    [i \in 1..(2 * Len(keys)) |->
        IF i % 2 = 1 THEN Node("scalar", "!!str", keys[(i + 1) \div 2], <<>>)
        ELSE toYAMLNode(t[keys[i \div 2]], keys[i \div 2])]

toYAMLNode(v, parentKey) ==
    CASE v.kind = "nil" -> Node("scalar", "!!null", <<"n", "u", "l", "l">>, <<>>)
      [] v.kind = "string" -> Node("scalar", "!!str", v.str, <<>>)
      [] v.kind = "bool" ->
            Node("scalar", "!!bool",
                 IF v.bool THEN <<"t", "r", "u", "e">> ELSE <<"f", "a", "l", "s", "e">>, <<>>)
      [] v.kind = "int" -> Node("scalar", "!!int", Decimal(v.int), <<>>)
      [] v.kind = "seq" ->
            Node("seq", "!!seq", <<>>,
                 [i \in DOMAIN v.items |-> toYAMLNode(v.items[i], parentKey)])
      [] v.kind = "map" ->
            Node("map", "!!map", <<>>, MappingContent(v.fields, KeyOrder(v.fields, parentKey)))

\* Mappings of strings over the keys name, a, z and image.
Mappings ==
    {Value("map", <<>>, 0, FALSE, <<>>, [k \in keys |-> Value("string", <<"v">>, 0, FALSE, <<>>, EmptyMap)]) :
        keys \in SUBSET {NameKey, <<"a">>, <<"z">>, <<"i", "m", "a", "g", "e">>}}

\* A manifest: scalars, a containers list of two mappings, the first with an
\* env mapping, and labels that hold a mapping under some key.
ManifestWith(c, e, labelKey) ==
    Value("map", <<>>, 0, FALSE, <<>>,
        (NameKey :> Value("string", <<"w", "1">>, 0, FALSE, <<>>, EmptyMap)) @@
        (<<"a">> :> Value("int", <<>>, 12, FALSE, <<>>, EmptyMap)) @@
        (<<"z">> :> Value("bool", <<>>, 0, TRUE, <<>>, EmptyMap)) @@
        (<<"v">> :> Value("nil", <<>>, 0, FALSE, <<>>, EmptyMap)) @@
        (ContainersKey :>
            Value("seq", <<>>, 0, FALSE,
                  <<[c EXCEPT !.fields = (<<"e", "n", "v">> :> e) @@ c.fields], c>>,
                  EmptyMap)) @@
        (<<"l", "a", "b", "e", "l", "s">> :>
            Value("map", <<>>, 0, FALSE, <<>>, (labelKey :> e))))

Manifests ==
    {ManifestWith(c, e, labelKey) :
        c \in Mappings,
        e \in {x \in Mappings : Cardinality(DOMAIN x.fields) \in {2, 3} /\ <<"a">> \in DOMAIN x.fields},
        labelKey \in {<<"a">>, ContainersKey}}

InitEncode ==
    /\ Idle
    /\ given \in {[of |-> "encode", manifest |-> m] : m \in Manifests}
    /\ result = NoOutput

\* generate.go 247
Encode ==
    /\ given.of = "encode"
    /\ Returns([of |-> "encode", out |-> toYAMLNode(given.manifest, <<>>)])

SpecEncode == InitEncode /\ [][Encode]_vars

----------------------------------------------------------------------------
(* Properties                                                              *)

\* The documents are in ascending order of their names.
InNameOrder(docs) ==
    \A i, j \in DOMAIN docs : i < j => StrLess(docs[i].manifest.name, docs[j].manifest.name)

\* C1: whatever generate writes, to the output file or to stdout, holds the
\* documents of the workloads in ascending workload-name order, whichever
\* order the map of workloads is iterated in.
C1_DocumentsInNameOrder == InNameOrder(stdout) /\ InNameOrder(outFile.docs)

\* C2: a generate that returns an error leaves the persisted state as it
\* was before the invocation.
C2_PersistOnlyOnSuccess == [][lastErr' # NoErr => persisted' = persisted]_vars

\* Errors of reading, decoding, validating and merging a score file.
FileErrorKinds == {"read", "decode", "invalid", "map-spec", "merge"}

\* Errors of applying --overrides-file, --override-property and --image.
OverrideErrorKinds ==
    {"override-file-read", "override-file-decode", "override-property-invalid",
     "override-property-value", "override-property-apply", "image-flag-invalid",
     "image-needed"}

\* The error of upgrading the document of a score file.
UpgradeErrorKinds == {"upgrade"}

\* C3 as claimed: every failure of the loop over the input files, those of
\* the overrides included, names the score file, and leaves the persisted
\* state and the output file as they were.
C3_EveryFailureNamesTheFile ==
    [][lastErr'.kind \in FileErrorKinds \cup OverrideErrorKinds \cup UpgradeErrorKinds =>
          /\ lastErr'.names = "file"
          /\ lastErr'.subject \in Range(lastArgs')
          /\ persisted' = persisted
          /\ outFile' = outFile]_vars

\* C3: a file that cannot be read, decoded, validated or merged gives an
\* error that names that file; a failing override gives an error that names
\* the override flag's entry or the container, not the score file; a
\* document that cannot be upgraded gives an error that names neither; in
\* all these cases the persisted state and the output file stay as they
\* were and nothing is printed.
C3_FailureLeavesStateAndOutput ==
    [][/\ lastErr'.kind \in FileErrorKinds =>
             lastErr'.names = "file" /\ lastErr'.subject \in Range(lastArgs')
       /\ lastErr'.kind \in OverrideErrorKinds =>
             lastErr'.names \in {"overrides-file", "override-property", "container", "nothing"}
       /\ lastErr'.kind \in UpgradeErrorKinds => lastErr'.names = "nothing"
       /\ lastErr'.kind \in FileErrorKinds \cup OverrideErrorKinds \cup UpgradeErrorKinds =>
             persisted' = persisted /\ outFile' = outFile /\ stdout' = <<>>]_vars

\* x fails after a, which sorts before it, was merged in memory: a's
\* workload is not on disk.
C3_LaterFileFailed ==
    /\ stateDir
    /\ lastErr.kind = "invalid"
    /\ lastErr.subject = FileX
    /\ lastArgs = <<FileX, FileA>>
    /\ DOMAIN persisted.workloads = {}

\* C4: a generate with zero or with more than one file and one of
\* --overrides-file, --override-property, --image set fails on the flag
\* check (or before it, without a state directory or with one that does not
\* load), whatever the files hold, and leaves the persisted state and the
\* output as they were.
C4_OverridesNeedOneFile ==
    [][(runs' = runs + 1 /\ lastOverride' /\ Len(lastArgs') # 1) =>
          /\ lastErr'.kind \in (IF stateDir THEN {"override-flags", "load-state"}
                                ELSE {"no-state-directory"})
          /\ persisted' = persisted
          /\ outFile' = outFile
          /\ stdout' = <<>>]_vars

\* Two files, one of them unreadable or invalid, with an override flag.
C4_OverrideRejected ==
    /\ lastErr.kind = "override-flags"
    /\ lastOverride
    /\ Len(lastArgs) = 2
    /\ FileX \in Range(lastArgs)

\* The metadata name a score file with fixed content declares.
DeclaredName(f) == MapSpec(ScoreFile(f, "missing").doc).metadata["name"]

\* C5: after a successful generate of several files, the record of each
\* workload name is the whole record (spec and source file) of the file that
\* sorts last among those that declare the name, in whatever order the
\* files were given.
C5_LastSortedFileWins ==
    (lastErr = NoErr /\ Len(lastArgs) > 1 /\ FileX \notin Range(lastArgs)) =>
        \A f \in Range(lastArgs) :
            (\A g \in Range(lastArgs) : DeclaredName(g) = DeclaredName(f) => ~StrLess(f, g)) =>
                /\ DeclaredName(f) \in DOMAIN persisted.workloads
                /\ persisted.workloads[DeclaredName(f)] =
                      [spec |-> MapSpec(ScoreFile(f, "missing").doc), file |-> f]

\* c given before b: both declare w2, the record is c's.
C5_GivenInDescendingOrder ==
    /\ lastErr = NoErr
    /\ lastArgs = <<FileC, FileB>>
    /\ W2 \in DOMAIN persisted.workloads
    /\ persisted.workloads[W2].file = FileC
    /\ DOMAIN persisted.workloads[W2].spec.resources = {"q"}

\* C6: after a successful generate every workload record is keyed by the
\* metadata name of its spec and its source file is a path of a command
\* line, the file that sorts last of this command line has a record, and a
\* workload without resources is in no resource record's usedBy and adds no
\* record.
C6_OneRecordPerName ==
    (lastErr = NoErr /\ DOMAIN persisted.workloads # {}) =>
        /\ \A w \in DOMAIN persisted.workloads :
              /\ persisted.workloads[w].spec.metadata["name"] = w
              /\ persisted.workloads[w].file \in {FileA, FileB, FileC, FileD, FileX}
              /\ DOMAIN persisted.workloads[w].spec.resources = {} =>
                    \A cid \in DOMAIN persisted.resources :
                        w \notin persisted.resources[cid].usedBy
        /\ \A f \in Range(lastArgs) :
              (\A g \in Range(lastArgs) : ~StrLess(f, g)) =>
                  \E w \in DOMAIN persisted.workloads : persisted.workloads[w].file = f
        /\ Cardinality(DOMAIN persisted.resources) <= Cardinality(References(persisted))

\* d alone (with --image): one record, keyed w1, from d, no resource.
C6_WorkloadWithoutResources ==
    /\ lastErr = NoErr
    /\ lastArgs = <<FileD>>
    /\ DOMAIN persisted.workloads = {W1}
    /\ persisted.workloads[W1].file = FileD
    /\ DOMAIN persisted.resources = {}

\* C7: in the persisted state the references with one canonical ID share one
\* record whose usedBy holds each workload that has such a reference, and
\* there are as many records as distinct canonical IDs (type, class, id).
C7_OneRecordPerCanonicalId ==
    /\ \A r \in References(persisted) :
          /\ ReferenceId(persisted, r) \in DOMAIN persisted.resources
          /\ r[1] \in persisted.resources[ReferenceId(persisted, r)].usedBy
    /\ \A r1, r2 \in References(persisted) :
          (/\ Reference(persisted, r1).type = Reference(persisted, r2).type
           /\ Reference(persisted, r1).class = Reference(persisted, r2).class
           /\ Reference(persisted, r1).id = Reference(persisted, r2).id)
          <=> ReferenceId(persisted, r1) = ReferenceId(persisted, r2)
    /\ Cardinality(DOMAIN persisted.resources) =
          Cardinality({<<Reference(persisted, r).type, Reference(persisted, r).class,
                         Reference(persisted, r).id>> : r \in References(persisted)})

\* a and b: w1 and w2 share the record of type T, b's reference with id x has
\* its own.
C7_SharedAndSeparate ==
    /\ lastArgs = <<FileA, FileB>>
    /\ DOMAIN persisted.resources = {<<"T", "default", "default">>, <<"T", "default", "x">>}
    /\ persisted.resources[<<"T", "default", "default">>].usedBy = {W1, W2}
    /\ persisted.resources[<<"T", "default", "x">>].usedBy = {W2}

\* Two references to one canonical ID with different params.
DeclaredConflict(st) ==
    \E r1, r2 \in References(st) :
        /\ ReferenceId(st, r1) = ReferenceId(st, r2)
        /\ Reference(st, r1).params # Reference(st, r2).params

\* C8: no state with two declarations of one canonical resource that differ
\* in params is ever persisted, and a generate that fails on priming leaves
\* the persisted state and the output file as they were.
C8_ConflictLeavesState ==
    [][/\ ~DeclaredConflict(persisted')
       /\ lastErr'.kind = "prime" => (persisted' = persisted /\ outFile' = outFile)]_vars

\* a is on disk; c declares a's resource with other params.
C8_ConflictWithPersisted ==
    /\ lastErr.kind = "prime"
    /\ lastArgs = <<FileC>>
    /\ DOMAIN persisted.workloads = {W1}
    /\ persisted.resources[<<"T", "default", "default">>].params = ("size" :> "1")

\* C9: in every persisted state each resource a workload references has a
\* record, and each record has a non-empty usedBy of workloads that
\* reference it.
C9_NoOrphans ==
    /\ \A r \in References(persisted) :
          ReferenceId(persisted, r) \in DOMAIN persisted.resources
    /\ \A cid \in DOMAIN persisted.resources :
          /\ persisted.resources[cid].usedBy # {}
          /\ \A w \in persisted.resources[cid].usedBy :
                /\ w \in DOMAIN persisted.workloads
                /\ \E n \in DOMAIN persisted.workloads[w].spec.resources :
                      ReferenceId(persisted, <<w, n>>) = cid

\* a, whose manifest is still in the output file, was replaced by d, which
\* has no resources: the record of a's resource is gone.
C9_ResourceDropped ==
    /\ runs = 2
    /\ lastErr = NoErr
    /\ lastArgs = <<FileD>>
    /\ outFile.exists
    /\ Len(outFile.docs) = 1
    /\ "env" \in DOMAIN outFile.docs[1].manifest.services[1].containers[1]
    /\ DOMAIN persisted.workloads = {W1}
    /\ DOMAIN persisted.resources = {}

\* C10: on the state a successful generate without overrides produced, the
\* merge and priming of the same files gives that state again: the same
\* workload records and the same resource records, outputs and usedBy.
C10_MergeAndPrimeAgain ==
    (lastErr = NoErr /\ DOMAIN persisted.workloads # {} /\ ~lastOverride
        /\ FileX \notin Range(lastArgs)) =>
        MergeAndPrime(stateDir, persisted, lastArgs, DefaultFlags,
                      [xContent |-> "missing", ovContent |-> "missing", visit |-> <<>>,
                       loadFails |-> FALSE])
            = [err |-> NoErr, state |-> persisted]

\* The state a and b produced: provisioned records, one used by both.
C10_ProvisionedState ==
    /\ lastErr = NoErr
    /\ ~lastOverride
    /\ lastArgs = <<FileB, FileA>>
    /\ \A cid \in DOMAIN persisted.resources : DOMAIN persisted.resources[cid].outputs # {}
    /\ <<"T", "default", "default">> \in DOMAIN persisted.resources
    /\ persisted.resources[<<"T", "default", "default">>].usedBy = {W1, W2}

\* C11: a generate whose provisioning fails leaves the persisted state and
\* the output as they were, and no persisted state holds a resource record
\* without outputs: what is persisted was provisioned as a whole.
C11_ProvisioningAllOrNothing ==
    [][/\ lastErr'.kind = "provision" =>
             persisted' = persisted /\ outFile' = outFile /\ stdout' = <<>>
       /\ \A cid \in DOMAIN persisted'.resources :
             DOMAIN persisted'.resources[cid].outputs # {}]_vars

\* a is on disk with its provisioned resource; b adds a resource and the
\* provisioning fails: neither b's workload nor its resources are on disk.
C11_ProvisioningFailed ==
    /\ lastErr.kind = "provision"
    /\ lastArgs = <<FileB>>
    /\ DOMAIN persisted.workloads = {W1}
    /\ DOMAIN persisted.resources = {<<"T", "default", "default">>}
    /\ DOMAIN persisted.resources[<<"T", "default", "default">>].outputs # {}

\* The values of a container that are expanded: its variables, the contents
\* of its files unless they are not to be expanded, its command and args.
ExpandedValues(c) ==
    {c.variables[k] : k \in DOMAIN c.variables}
    \cup {f.content : f \in {x \in Range(FieldOr(c, "files", EmptyMap)) :
                                x.kind # "none" /\ x.readable /\ ~x.noExpand}}
    \cup Range(CombinedCmd(c))

\* The dot paths of the placeholders of a workload.
PlaceholdersOf(spec) ==
    UNION {{v[i].path : i \in {j \in DOMAIN v : v[j].kind = "ref"}} :
             v \in UNION {ExpandedValues(spec.containers[c]) : c \in DOMAIN spec.containers}}

\* The canonical IDs of the resources a workload references.
OwnResourceIds(st, w) ==
    {ReferenceId(st, <<w, r>>) : r \in DOMAIN st.workloads[w].spec.resources}

\* C12: the manifest of a workload is the same in every state that differs
\* only in the outputs of resources the workload does not reference, and a
\* placeholder that names a resource only another workload declares makes
\* the conversion fail.
C12_OnlyOwnResourceOutputs ==
    result.of = "Workload" =>
        /\ \A cid \in DOMAIN given.st.resources \ OwnResourceIds(given.st, given.w) :
              \A o \in OutputChoices \cup {EmptyMap} :
                 Workload([given.st EXCEPT !.resources[cid].outputs = o], given.w) = result.out
        /\ \A p \in PlaceholdersOf(given.st.workloads[given.w].spec) :
              (/\ p[1] = "resources"
               /\ p[2] \notin DOMAIN given.st.workloads[given.w].spec.resources
               /\ \E ref \in References(given.st) : ref[2] = p[2])
              => ~result.out.ok

\* Workload w1 reads the host of its own resource while the resource of the
\* other workload has another host.
C12_OwnOutputResolved ==
    /\ result.of = "Workload"
    /\ given.w = W1
    /\ given.st.resources[<<"T", "default", "x">>].outputs = ("host" :> <<"j">>)
    /\ given.st.workloads[W1].spec.containers[Main].variables = ("K" :> <<Ref(<<"resources", "db", "host">>)>>)
    /\ result.out.ok
    /\ result.out.manifest.services[1].containers[1].env = ("K" :> <<"h">>)

\* The placeholder names a metadata key the workload has, or an output that
\* the record of one of the workload's own resources holds.
Available(p, st, w) ==
    \/ /\ p[1] = "metadata"
       /\ Len(p) = 2
       /\ p[2] \in DOMAIN st.workloads[w].spec.metadata
    \/ /\ p[1] = "resources"
       /\ Len(p) = 3
       /\ p[2] \in DOMAIN st.workloads[w].spec.resources
       /\ ReferenceId(st, <<w, p[2]>>) \in DOMAIN st.resources
       /\ p[3] \in DOMAIN st.resources[ReferenceId(st, <<w, p[2]>>)].outputs

\* C13: a placeholder of a variable, an expanded file or a command or
\* argument token that names an unknown metadata key or an unavailable
\* resource output fails the conversion of the workload: there is no
\* manifest, so nothing stands in for the reference.
C13_UnresolvedPlaceholderFails ==
    result.of = "Workload" =>
        ((\E p \in PlaceholdersOf(given.st.workloads[given.w].spec) :
             ~Available(p, given.st, given.w))
         => ~result.out.ok /\ result.out.manifest = EmptyMap)

\* An argument of w1 names an output its resource does not have.
C13_ArgumentUnresolved ==
    /\ result.of = "Workload"
    /\ given.w = W1
    /\ "args" \in DOMAIN given.st.workloads[W1].spec.containers[Main]
    /\ given.st.workloads[W1].spec.containers[Main].args[2] = <<Ref(<<"resources", "db", "port">>)>>
    /\ ~result.out.ok

\* The text of a value as the score file holds it, for a value without
\* placeholders: the escape is written $$.
RECURSIVE AsWritten(_)
AsWritten(parts) ==
    IF parts = <<>> THEN <<>>
    ELSE (IF Head(parts).kind = "esc" THEN <<"$", "$">> ELSE Head(parts).text)
         \o AsWritten(Tail(parts))

\* The same text with every escape $$ read as one $.
RECURSIVE Unescaped(_)
Unescaped(parts) ==
    IF parts = <<>> THEN <<>>
    ELSE (IF Head(parts).kind = "esc" THEN <<"$">> ELSE Head(parts).text)
         \o Unescaped(Tail(parts))

HasPlaceholder(parts) == \E i \in DOMAIN parts : parts[i].kind = "ref"
HasEscape(parts) == \E i \in DOMAIN parts : parts[i].kind = "esc"

\* The container of the manifest with the given name.
Emitted(manifest, cname) ==
    CHOOSE x \in Range(manifest.services[1].containers) : x.name = cname

\* The env of a container of the manifest, empty when it has none.
EnvOf(container) == IF "env" \in DOMAIN container THEN container.env ELSE EmptyMap

\* C14 as stated: every variable is in env under its key, ${metadata.name}
\* as the metadata name and a value without placeholders as it is written.
C14_VariablesEmittedUnchanged ==
    (result.of = "Workload" /\ result.out.ok) =>
        \A c \in DOMAIN given.st.workloads[given.w].spec.containers :
          \A k \in DOMAIN given.st.workloads[given.w].spec.containers[c].variables :
            /\ k \in DOMAIN EnvOf(Emitted(result.out.manifest, c))
            /\ given.st.workloads[given.w].spec.containers[c].variables[k]
                  = <<Ref(<<"metadata", "name">>)>>
               => EnvOf(Emitted(result.out.manifest, c))[k]
                    = given.st.workloads[given.w].spec.metadata["name"]
            /\ ~HasPlaceholder(given.st.workloads[given.w].spec.containers[c].variables[k])
               => EnvOf(Emitted(result.out.manifest, c))[k]
                    = AsWritten(given.st.workloads[given.w].spec.containers[c].variables[k])

\* C14: every variable is in env under its key; ${metadata.name} yields the
\* metadata name; a value without placeholders is emitted with every $$
\* turned into $, so unchanged when it holds no $$ either.
C14_VariablesResolved ==
    (result.of = "Workload" /\ result.out.ok) =>
        \A c \in DOMAIN given.st.workloads[given.w].spec.containers :
          \A k \in DOMAIN given.st.workloads[given.w].spec.containers[c].variables :
            /\ k \in DOMAIN EnvOf(Emitted(result.out.manifest, c))
            /\ given.st.workloads[given.w].spec.containers[c].variables[k]
                  = <<Ref(<<"metadata", "name">>)>>
               => EnvOf(Emitted(result.out.manifest, c))[k]
                    = given.st.workloads[given.w].spec.metadata["name"]
            /\ ~HasPlaceholder(given.st.workloads[given.w].spec.containers[c].variables[k])
               => EnvOf(Emitted(result.out.manifest, c))[k]
                    = Unescaped(given.st.workloads[given.w].spec.containers[c].variables[k])
            /\ (/\ ~HasPlaceholder(given.st.workloads[given.w].spec.containers[c].variables[k])
                /\ ~HasEscape(given.st.workloads[given.w].spec.containers[c].variables[k]))
               => EnvOf(Emitted(result.out.manifest, c))[k]
                    = AsWritten(given.st.workloads[given.w].spec.containers[c].variables[k])

\* Workload w1 with a variable holding ${metadata.name} and a plain one.
C14_NameAndPlainVariable ==
    /\ result.of = "Workload"
    /\ given.w = W1
    /\ given.st.workloads[W1].spec.containers[Main].variables
          = ("K" :> <<Ref(<<"metadata", "name">>)>>) @@ ("L" :> <<Lit(<<"v">>)>>)
    /\ result.out.ok
    /\ result.out.manifest.services[1].containers[1].env = ("K" :> W1) @@ ("L" :> <<"v">>)

\* Every run of consecutive dashes becomes one dash.
RECURSIVE CollapseRuns(_)
CollapseRuns(s) ==
    IF Len(s) < 2 THEN s
    ELSE IF s[1] = "-" /\ s[2] = "-" THEN CollapseRuns(Tail(s))
    ELSE <<Head(s)>> \o CollapseRuns(Tail(s))

HasAlnum(s) == \E i \in DOMAIN s : IsAlnum(s[i])

AdjacentDashes(s) == \E i \in 1..(Len(s) - 1) : s[i] = "-" /\ s[i + 1] = "-"

\* C15: for a metadata name with a letter or digit the application name is
\* the name in lower case, invalid characters replaced by dashes, runs of
\* dashes collapsed, dashes at the ends removed; it has no adjacent dashes.
C15_NameIsReferenceSanitization ==
    (result.of = "name" /\ HasAlnum(ToLower(given.metadata["name"]))) =>
        /\ result.out.manifest.name
              = TrimDash(CollapseRuns(ReplaceInvalid(ToLower(given.metadata["name"]))))
        /\ ~AdjacentDashes(result.out.manifest.name)

\* C16: for a metadata name without any letter or digit the application is
\* named app and its service app-service; no application name is empty.
C16_FallbackName ==
    result.of = "name" =>
        /\ ~HasAlnum(ToLower(given.metadata["name"]))
              => /\ result.out.manifest.name = <<"a", "p", "p">>
                 /\ result.out.manifest.services[1].name
                       = <<"a", "p", "p", "-", "s", "e", "r", "v", "i", "c", "e">>
        /\ result.out.manifest.name # <<>>

\* C17: the containers of the service are the declared containers, each
\* once, in ascending order of their names; converting the same workload of
\* the same state again gives the same manifest.
C17_ContainersInNameOrder ==
    (result.of = "Workload" /\ result.out.ok) =>
        /\ Len(result.out.manifest.services[1].containers)
              = Cardinality(DOMAIN given.st.workloads[given.w].spec.containers)
        /\ {x.name : x \in Range(result.out.manifest.services[1].containers)}
              = DOMAIN given.st.workloads[given.w].spec.containers
        /\ \A i, j \in DOMAIN result.out.manifest.services[1].containers :
              i < j => StrLess(result.out.manifest.services[1].containers[i].name,
                               result.out.manifest.services[1].containers[j].name)
        /\ Workload(given.st, given.w) = result.out

\* Workload w1 declares containers m, b and W: emitted as W, b, m.
C17_ThreeContainers ==
    /\ result.of = "Workload"
    /\ given.w = W1
    /\ DOMAIN given.st.workloads[W1].spec.containers = {Main, <<"b">>, <<"W">>}
    /\ result.out.ok
    /\ [i \in 1..3 |-> result.out.manifest.services[1].containers[i].name]
          = <<<<"W">>, <<"b">>, Main>>

\* The keys of a mapping node, in the order they are emitted.
KeysOf(node) == [i \in 1..(Len(node.content) \div 2) |-> node.content[2 * i - 1].value]

\* The mapping nodes of a node tree, each with its keys and whether it is an
\* element of a sequence that is the value of the key "containers".
RECURSIVE MappingNodes(_, _)
RECURSIVE ChildMappingNodes(_, _)
MappingNodes(node, element) ==
    CASE node.kind = "map" ->
            {[keys |-> KeysOf(node), element |-> element]}
            \cup UNION {ChildMappingNodes(node.content[2 * i - 1].value, node.content[2 * i]) :
                          i \in 1..(Len(node.content) \div 2)}
      [] node.kind = "seq" ->
            UNION {MappingNodes(node.content[i], FALSE) : i \in DOMAIN node.content}
      [] OTHER -> {}

ChildMappingNodes(key, child) ==
    IF child.kind = "seq"
    THEN UNION {MappingNodes(child.content[i], key = ContainersKey) : i \in DOMAIN child.content}
    ELSE MappingNodes(child, FALSE)

Ascending(keys) == \A i, j \in DOMAIN keys : i < j => StrLess(keys[i], keys[j])

\* C18: in the node tree, a mapping that is an element of a containers list
\* has name as its first key when it has one, and its other keys follow in
\* ascending order.
C18_NameFirstInContainers ==
    result.of = "encode" =>
        \A m \in MappingNodes(result.out, FALSE) :
            m.element =>
                /\ (\E i \in DOMAIN m.keys : m.keys[i] = NameKey) => m.keys[1] = NameKey
                /\ Ascending(SelectSeq(m.keys, IsNotName))

\* A container with the keys a, env, image, name and z: name, then a, env,
\* image and z.
C18_NameMoved ==
    /\ result.of = "encode"
    /\ \E m \in MappingNodes(result.out, FALSE) :
          /\ m.element
          /\ m.keys = <<NameKey, <<"a">>, <<"e", "n", "v">>, <<"i", "m", "a", "g", "e">>, <<"z">>>>

\* C19: in the node tree, every mapping that is not an element of a
\* containers list has its keys in ascending order, name among them.
C19_SortedOutsideContainers ==
    result.of = "encode" =>
        \A m \in MappingNodes(result.out, FALSE) : ~m.element => Ascending(m.keys)

\* C20: a container without variables has no env key in the manifest, and a
\* container with variables has an env with exactly the keys of its
\* variables.
C20_EmptyEnvOmitted ==
    (result.of = "Workload" /\ result.out.ok) =>
        \A c \in DOMAIN given.st.workloads[given.w].spec.containers :
            IF DOMAIN given.st.workloads[given.w].spec.containers[c].variables = {}
            THEN "env" \notin DOMAIN Emitted(result.out.manifest, c)
            ELSE /\ "env" \in DOMAIN Emitted(result.out.manifest, c)
                 /\ DOMAIN Emitted(result.out.manifest, c).env
                       = DOMAIN given.st.workloads[given.w].spec.containers[c].variables

\* Workload w1 with containers W and b without variables and m with one.
C20_WithAndWithoutVariables ==
    /\ result.of = "Workload"
    /\ given.w = W1
    /\ DOMAIN given.st.workloads[W1].spec.containers = {Main, <<"b">>, <<"W">>}
    /\ DOMAIN given.st.workloads[W1].spec.containers[Main].variables = {"K"}
    /\ result.out.ok
    /\ "env" \notin DOMAIN result.out.manifest.services[1].containers[1]
    /\ "env" \notin DOMAIN result.out.manifest.services[1].containers[2]
    /\ DOMAIN result.out.manifest.services[1].containers[3].env = {"K"}

\* The annotations the conversion reads.
AvassaAnnotations ==
    {"avassa.on-mutable-variable-change", "avassa.network", "avassa.io/version",
     "avassa.replicas", "avassa.share-pid-namespace", "avassa.log-size",
     "avassa.log-archive", "avassa.shutdown-timeout", "avassa.approle",
     "avassa.on-mounted-file-change-restart"}

WithoutAvassaAnnotations(metadata) ==
    "annotations" \in DOMAIN metadata => DOMAIN metadata["annotations"] \cap AvassaAnnotations = {}

\* C21: the manifest of a workload without avassa annotations has one
\* service, named after the application, replicated with one replica and no
\* shared pid namespace, with one container per container of the workload,
\* each with log size 100 MB and shutdown timeout 10s; the application
\* restarts the service instance on a variable change; there is no network,
\* approle or on-mounted-file-change key.
C21_DefaultsWithoutAnnotations ==
    (/\ result.of = "Workload"
     /\ result.out.ok
     /\ WithoutAvassaAnnotations(given.st.workloads[given.w].spec.metadata)) =>
        /\ Len(result.out.manifest.services) = 1
        /\ result.out.manifest.services[1].name
              = result.out.manifest.name \o <<"-", "s", "e", "r", "v", "i", "c", "e">>
        /\ result.out.manifest.services[1].mode = "replicated"
        /\ result.out.manifest.services[1].replicas = 1
        /\ result.out.manifest.services[1].sharePidNamespace = FALSE
        /\ Len(result.out.manifest.services[1].containers)
              = Cardinality(DOMAIN given.st.workloads[given.w].spec.containers)
        /\ \A c \in DOMAIN given.st.workloads[given.w].spec.containers :
              \E i \in DOMAIN result.out.manifest.services[1].containers :
                 result.out.manifest.services[1].containers[i].name = c
        /\ \A i \in DOMAIN result.out.manifest.services[1].containers :
              /\ result.out.manifest.services[1].containers[i].containerLogSize = <<"1", "0", "0", " ", "M", "B">>
              /\ result.out.manifest.services[1].containers[i].shutdownTimeout = <<"1", "0", "s">>
              /\ "approle" \notin DOMAIN result.out.manifest.services[1].containers[i]
              /\ "onMountedFileChange" \notin DOMAIN result.out.manifest.services[1].containers[i]
        /\ result.out.manifest.onMutableVariableChange
              = <<"r", "e", "s", "t", "a", "r", "t", "-", "s", "e", "r", "v", "i", "c", "e", "-", "i", "n", "s", "t", "a", "n", "c", "e">>
        /\ "network" \notin DOMAIN result.out.manifest

\* Workload w1 with three containers and an annotation that is not avassa's.
C21_OtherAnnotationOnly ==
    /\ result.of = "Workload"
    /\ given.w = W1
    /\ "annotations" \in DOMAIN given.st.workloads[W1].spec.metadata
    /\ given.st.workloads[W1].spec.metadata["annotations"] = ("other" :> <<"v">>)
    /\ DOMAIN given.st.workloads[W1].spec.containers = {Main, <<"b">>, <<"W">>}
    /\ result.out.ok
    /\ result.out.manifest.name = W1
    /\ result.out.manifest.services[1].replicas = 1
    /\ Len(result.out.manifest.services[1].containers) = 3

\* The probes of a container of the manifest, none when it has no probes key.
ProbesOf(container) == IF "probes" \in DOMAIN container THEN container.probes ELSE EmptyMap

\* The manifest probe of a declared probe has exactly the expected form.
ProbeForm(declared, emitted, kind) ==
    /\ (declared.hasExec /\ declared.hasHttpGet)
          => kind \in DOMAIN emitted /\ DOMAIN emitted[kind] = {"exec"}
    /\ (~declared.hasExec /\ declared.hasHttpGet)
          => kind \in DOMAIN emitted /\ DOMAIN emitted[kind] = {"http"}

\* C22: a probe that declares exec and httpGet is emitted in the exec form
\* only, a probe with httpGet alone in the http form only, and a container
\* without liveness and readiness probe has no probes key.
C22_ExecPreferred ==
    (result.of = "Workload" /\ result.out.ok) =>
        \A c \in DOMAIN given.st.workloads[given.w].spec.containers :
            /\ "livenessProbe" \in DOMAIN given.st.workloads[given.w].spec.containers[c]
                  => ProbeForm(given.st.workloads[given.w].spec.containers[c].livenessProbe,
                               ProbesOf(Emitted(result.out.manifest, c)), "liveness")
            /\ "readinessProbe" \in DOMAIN given.st.workloads[given.w].spec.containers[c]
                  => ProbeForm(given.st.workloads[given.w].spec.containers[c].readinessProbe,
                               ProbesOf(Emitted(result.out.manifest, c)), "readiness")
            /\ ({"livenessProbe", "readinessProbe"}
                   \cap DOMAIN given.st.workloads[given.w].spec.containers[c] = {})
                  => "probes" \notin DOMAIN Emitted(result.out.manifest, c)

\* The command tokens of a container followed by its argument tokens, each
\* substituted on its own.
SubstitutedTokens(c, metadata, outputs) ==
    [i \in 1..(Len(FieldOr(c, "command", <<>>)) + Len(FieldOr(c, "args", <<>>))) |->
        SubstituteString((FieldOr(c, "command", <<>>) \o FieldOr(c, "args", <<>>))[i],
                         metadata, outputs).text]

IsNotBlank(text) == TrimSpace(text) # <<>>

\* The cmd of a container of the manifest, empty when it has none.
CmdOf(container) == IF "cmd" \in DOMAIN container THEN container.cmd ELSE <<>>

\* C23 as stated: cmd is the command tokens followed by the argument tokens,
\* each substituted, without the tokens that are empty or blank; there is no
\* empty cmd.
C23_CmdIsSubstitutedTokens ==
    (result.of = "Workload" /\ result.out.ok) =>
        \A c \in DOMAIN given.st.workloads[given.w].spec.containers :
            /\ CmdOf(Emitted(result.out.manifest, c))
                  = SelectSeq(SubstitutedTokens(given.st.workloads[given.w].spec.containers[c],
                                                given.st.workloads[given.w].spec.metadata,
                                                ResourceOutputs(given.st, given.w).outputs),
                              IsNotBlank)
            /\ "cmd" \in DOMAIN Emitted(result.out.manifest, c)
                  => Emitted(result.out.manifest, c).cmd # <<>>

TrimmedTokens(tokens) == [i \in DOMAIN tokens |-> TrimSpace(tokens[i])]

\* C23: cmd is the command tokens followed by the argument tokens, each
\* substituted on its own and trimmed of the blanks around it, without the
\* tokens of which nothing is left; there is no empty cmd.
C23_CmdIsTrimmedTokens ==
    (result.of = "Workload" /\ result.out.ok) =>
        \A c \in DOMAIN given.st.workloads[given.w].spec.containers :
            /\ CmdOf(Emitted(result.out.manifest, c))
                  = SelectSeq(
                        TrimmedTokens(
                            SubstitutedTokens(given.st.workloads[given.w].spec.containers[c],
                                              given.st.workloads[given.w].spec.metadata,
                                              ResourceOutputs(given.st, given.w).outputs)),
                        IsNotBlank)
            /\ "cmd" \in DOMAIN Emitted(result.out.manifest, c)
                  => Emitted(result.out.manifest, c).cmd # <<>>

\* Container m has the command c and the arguments d and a blank: cmd is c, d.
C23_BlankArgumentDropped ==
    /\ result.of = "Workload"
    /\ given.w = W1
    /\ "args" \in DOMAIN given.st.workloads[W1].spec.containers[Main]
    /\ given.st.workloads[W1].spec.containers[Main].args[2] = <<Lit(<<" ">>)>>
    /\ result.out.ok
    /\ result.out.manifest.services[1].containers[1].cmd = <<<<"c">>, <<"d">>>>

\* C24: a generate where init has not run fails for the missing state
\* directory, prints nothing, and leaves the directory and the output file
\* absent, whatever its files and flags are.
C24_GenerateNeedsInit ==
    [][(~stateDir /\ runs' = runs + 1) =>
          /\ lastErr'.kind = "no-state-directory"
          /\ stdout' = <<>>
          /\ ~stateDir'
          /\ persisted' = EmptyState
          /\ outFile' = NoFile]_vars

\* generate a with an override flag, before any init.
C24_GenerateBeforeInit ==
    /\ ~stateDir
    /\ runs = 1
    /\ lastArgs = <<FileA>>
    /\ lastOverride
    /\ lastErr.kind = "no-state-directory"

\* C25: a generate that reaches the merge with no file passed and no workload
\* persisted earlier (state directory present and loaded, no override flag)
\* fails with
\* "project is empty, please add a score file" and has done nothing else: the
\* persisted state is the one before (nothing primed, provisioned or
\* persisted), the output file is untouched and nothing is printed.
C25_EmptyProjectFails ==
    [][(/\ stateDir
        /\ runs' = runs + 1
        /\ lastErr'.kind # "load-state"
        /\ lastArgs' = <<>>
        /\ ~lastOverride'
        /\ DOMAIN persisted.workloads = {}) =>
          /\ lastErr'.kind = "empty-project"
          /\ persisted' = persisted
          /\ outFile' = outFile
          /\ stdout' = <<>>]_vars

\* A generate without files in a project just initialised.
C25_GenerateWithoutFiles ==
    /\ stateDir /\ runs = 1 /\ lastArgs = <<>> /\ ~lastOverride
    /\ DOMAIN persisted.workloads = {}
    /\ lastErr.kind = "empty-project"

\* The errors of a run that has saved the merged state (generate.go 156-189).
SavedKinds == {"ok", "convert", "no-output-file", "write-output", "rename-output"}

\* The containers of the score file of a single-file run as the file gives
\* them, for the files whose content is fixed.
FileContainers(args) == MapSpec(ScoreFile(args[1], "missing").doc).containers

FileWorkload(args) == MapSpec(ScoreFile(args[1], "missing").doc).metadata["name"]

\* C26: in a single-file generate of one of the files a, b, c, d, given
\* --image or no override flag at all, on a state that loads: if a container of the file has image
\* "." and --image is absent, empty or ".", the run fails on the image and
\* the persisted state stays as it was; if the run saves the merged state,
\* every container of the file with image "." has the --image value and every
\* other container the image of the file.  And no generate leaves a
\* container with image "." in the persisted state.
C26_ImageReplacesDot ==
    [][/\ (/\ stateDir
           /\ runs' = runs + 1
           /\ lastErr'.kind # "load-state"
           /\ Len(lastArgs') = 1
           /\ lastArgs'[1] # FileX
           /\ (lastImage'.changed \/ ~lastOverride')) =>
             /\ (/\ \E c \in DOMAIN FileContainers(lastArgs') :
                       FileContainers(lastArgs')[c].image = <<".">>
                 /\ (lastImage'.v = <<>> \/ lastImage'.v = <<".">>)) =>
                    /\ lastErr'.kind \in {"image-flag-invalid", "image-needed"}
                    /\ persisted' = persisted
             /\ lastErr'.kind \in SavedKinds =>
                    \A c \in DOMAIN FileContainers(lastArgs') :
                        persisted'.workloads[FileWorkload(lastArgs')].spec.containers[c].image
                          = IF FileContainers(lastArgs')[c].image = <<".">>
                            THEN lastImage'.v
                            ELSE FileContainers(lastArgs')[c].image
       /\ runs' = runs + 1 =>
             \A w \in DOMAIN persisted'.workloads :
                \A c \in DOMAIN persisted'.workloads[w].spec.containers :
                    persisted'.workloads[w].spec.containers[c].image # <<".">>]_vars

\* d with --image i: container m, whose image is ".", has image i and
\* container n keeps its own.
C26_DotReplacedOtherKept ==
    /\ lastErr = NoErr
    /\ lastArgs = <<FileD>>
    /\ lastImage = Given(<<"i">>)
    /\ FileContainers(lastArgs)[Main].image = <<".">>
    /\ persisted.workloads[W1].spec.containers[Main].image = <<"i">>
    /\ persisted.workloads[W1].spec.containers[<<"n">>].image = <<"j">>

\* The complete output for a state: the documents of the manifests of all
\* its workloads, in one of the orders of the map.
CompleteOutput(docs, st) ==
    \E order \in Orders(DOMAIN st.workloads) :
        docs = Documents([i \in 1..Len(order) |-> Workload(st, order[i]).manifest])

\* C27: after every generate the output file holds what it held before or
\* the complete output of the run, and it holds the new output only when the
\* run succeeded without printing; a run that fails leaves the file as it
\* was and prints nothing; a run that prints the output prints all of it and
\* leaves the file as it was.
C27_OutputFileOldOrComplete ==
    [][runs' = runs + 1 =>
          /\ lastErr' # NoErr => (outFile' = outFile /\ stdout' = <<>>)
          /\ lastErr' = NoErr =>
                \/ /\ CompleteOutput(stdout', persisted')
                   /\ outFile' = outFile
                \/ /\ stdout' = <<>>
                   /\ outFile'.exists
                   /\ CompleteOutput(outFile'.docs, persisted')]_vars

\* The second run merged a second workload and failed to write the temporary
\* file: the output file still holds the one document of the first run.
C27_WriteFailedFileKept ==
    /\ runs = 2
    /\ lastErr.kind = "write-output"
    /\ Cardinality(DOMAIN persisted.workloads) = 2
    /\ outFile.exists
    /\ Len(outFile.docs) = 1

\* The documents the last generate emitted, printed or written to the file.
EmittedDocs(printed, file) == IF printed # <<>> THEN printed ELSE file.docs

\* C28: a successful generate emits as many documents as the persisted state
\* has workloads, each with the separator "---", and for every workload of
\* that state, passed this time or persisted before, exactly one of them is
\* its manifest; and no step takes a workload name out of the persisted
\* state.
C28_OneDocumentPerWorkload ==
    [][/\ (runs' = runs + 1 /\ lastErr' = NoErr) =>
             /\ Len(EmittedDocs(stdout', outFile'))
                   = Cardinality(DOMAIN persisted'.workloads)
             /\ \A i \in 1..Len(EmittedDocs(stdout', outFile')) :
                    EmittedDocs(stdout', outFile')[i].separator = "---"
             /\ \A w \in DOMAIN persisted'.workloads :
                    Cardinality({i \in 1..Len(EmittedDocs(stdout', outFile')) :
                        EmittedDocs(stdout', outFile')[i].manifest
                          = Workload(persisted', w).manifest}) = 1
       /\ DOMAIN persisted.workloads \subseteq DOMAIN persisted'.workloads]_vars

\* The second run was given only c, whose workload is w2; the first had
\* persisted w1: two documents are printed.
C28_EarlierWorkloadEmitted ==
    /\ runs = 2
    /\ lastErr = NoErr
    /\ lastArgs = <<FileC>>
    /\ DOMAIN persisted.workloads = {W1, W2}
    /\ persisted.workloads[W1].file # FileC
    /\ Len(stdout) = 2

\* C29: when convert.Workload has returned, with a manifest or with an error,
\* the project state read from the state's own maps and pointers, after
\* every store the call made, is the state it was called with, every
\* workload record and every resource record; each workload converts on it
\* to what it converts to on the state before; and the workload converts to
\* the same result on the state that the conversion of any workload leaves,
\* whatever order that conversion visited its containers in.
C29_StateUnchangedByWorkload ==
    result.of = "Workload" =>
        /\ result.after = given.st
        /\ \A w \in DOMAIN given.st.workloads :
              Workload(result.after, w) = Workload(given.st, w)
        /\ \A v \in DOMAIN given.st.workloads :
              \A o \in Orders(DOMAIN given.st.workloads[v].spec.containers) :
                 Workload(StateAfterWorkload(given.st, v, o, ResourceOutputs(given.st, v)),
                          given.w) = result.out

\* A workload with a variable and a file that hold placeholders, next to a
\* second workload, was converted: the containers handed to
\* buildAvassaApplication hold the resolved variable and the file with its
\* resolved content and noExpand set, where the state holds the placeholders
\* and the file with noExpand unset.
C29_ConvertedInTheClone ==
    /\ result.of = "Workload"
    /\ result.out.ok
    /\ given.w = W1
    /\ Cardinality(DOMAIN given.st.workloads) = 2
    /\ "K" \in DOMAIN given.st.workloads[W1].spec.containers[Main].variables
    /\ "files" \in DOMAIN given.st.workloads[W1].spec.containers[Main]
    /\ HasPlaceholder(given.st.workloads[W1].spec.containers[Main].variables["K"])
    /\ HasPlaceholder(given.st.workloads[W1].spec.containers[Main].files["f"].content)
    /\ ~given.st.workloads[W1].spec.containers[Main].files["f"].noExpand
    /\ result.containers[Main].variables["K"]
          # given.st.workloads[W1].spec.containers[Main].variables["K"]
    /\ result.containers[Main].files["f"].noExpand
    /\ result.containers[Main].files["f"].content
          # given.st.workloads[W1].spec.containers[Main].files["f"].content
    /\ EnvOf(Emitted(result.out.manifest, Main))["K"]
          # AsWritten(given.st.workloads[W1].spec.containers[Main].variables["K"])

\* The state with the files of the containers of a workload left out.
WithoutFiles(st, w) ==
    [st EXCEPT !.workloads[w].spec.containers =
        [c \in DOMAIN @ |-> [k \in DOMAIN @[c] \ {"files"} |-> @[c][k]]]]

\* A file that has neither content nor source, whose source cannot be read,
\* or whose content is to be expanded and holds a placeholder that does not
\* resolve.
FailingFile(f, st, w) ==
    \/ f.kind = "none"
    \/ f.kind = "source" /\ ~f.readable
    \/ /\ ~f.noExpand
       /\ \E i \in DOMAIN f.content :
             f.content[i].kind = "ref" /\ ~Available(f.content[i].path, st, w)

\* C30: every container of a manifest has the empty list as mounts, and the
\* result of converting a workload is the failure if one of its files has
\* neither content nor source, an unreadable source or, noExpand not being
\* set, an unresolved placeholder, and otherwise the result of converting
\* the workload without its files; so a file with noExpand set does not fail
\* on its placeholders.
C30_FilesOnlyFail ==
    result.of = "Workload" =>
        /\ result.out.ok =>
              \A i \in DOMAIN result.out.manifest.services[1].containers :
                  result.out.manifest.services[1].containers[i].mounts = <<>>
        /\ result.out =
              IF \E c \in DOMAIN given.st.workloads[given.w].spec.containers :
                    \E f \in Range(FieldOr(given.st.workloads[given.w].spec.containers[c],
                                            "files", EmptyMap)) :
                        FailingFile(f, given.st, given.w)
              THEN [ok |-> FALSE, manifest |-> EmptyMap]
              ELSE Workload(WithoutFiles(given.st, given.w), given.w)

\* A file with noExpand set whose content names an unknown metadata key: the
\* workload converts and the container has no mounts.
C30_NoExpandFileConverted ==
    /\ result.of = "Workload"
    /\ given.w = W1
    /\ "files" \in DOMAIN given.st.workloads[W1].spec.containers[Main]
    /\ given.st.workloads[W1].spec.containers[Main].files["f"].noExpand
    /\ given.st.workloads[W1].spec.containers[Main].files["f"].content
          = <<Ref(<<"metadata", "x">>)>>
    /\ result.out.ok
    /\ Emitted(result.out.manifest, Main).mounts = <<>>

====
